---------------------------- MODULE Spec2Model ----------------------------
(***************************************************************************)
(* State-machine model of the StreamBot streaming engine: the RTP          *)
(* packetizers and the transport encryptor (this part), the voice gateway, *)
(* the StreamerClient handshake and the playStream orchestrator.           *)
(*                                                                         *)
(* 32-bit quantities are pairs <<hi, lo>> of 16-bit halves, so that the    *)
(* code's "% MAX_INT32" keeps its width.                                   *)
(***************************************************************************)
EXTENDS Integers, Naturals, Sequences, FiniteSets, TLC

\* ------------------------------------------------------------------------
\* Bounds of the model
\* ------------------------------------------------------------------------

\* frames fed to the two packetizers together in a behaviour
MaxFrames == 3

\* how close to the wrap the counters of an already running session start
WrapMargin == 2

\* NAL units of an access unit
MaxNals == 3

\* seconds on the clock of a transport that runs IP discovery
MaxClock == 11

\* sendPacket and stop calls on a transport that runs IP discovery
MaxPackets == 2

MaxStops == 2

\* container reads one demux call makes before the container ends
MaxReads == 4

\* bytes of a length-prefixed frame taken byte by byte
MaxFrameLen == 10

\* packets one container read returns
MaxBatch == 2

\* highWaterMark of the demuxer's output pipes, in packets (128 in the code)
HighWaterMark == 2

\* ------------------------------------------------------------------------
\* constants.ts / RtpPacket.ts / index.ts
\* ------------------------------------------------------------------------

MAX_INT16 == 65536

MTU == 1200

SR_INTERVAL == 1000

Min(a, b) == IF a < b THEN a ELSE b

\* a 32-bit unsigned value hi * 2^16 + lo
U32(hi, lo) == <<hi, lo>>

U32Zero == U32(0, 0)

\* (x + n) % MAX_INT32 for a 32-bit x and 0 <= n < 2^30
U32Add(x, n) ==
    LET lo == x[2] + (n % MAX_INT16)
        hi == x[1] + (n \div MAX_INT16) + (lo \div MAX_INT16)
    IN  U32(hi % MAX_INT16, lo % MAX_INT16)

\* x < y on 32-bit values
U32Less(x, y) == x[1] < y[1] \/ (x[1] = y[1] /\ x[2] < y[2])

\* 2^32 - n for 1 <= n <= 2^16
U32Below(n) == U32(MAX_INT16 - 1, MAX_INT16 - n)

nextSequenceSkip(current) == (current + 2) % MAX_INT16

nextSequence(current) == (current + 1) % MAX_INT16

\* (k * n) % MAX_INT32 for 0 <= k < 2^15 and 0 <= n < 2^31
U32Times(k, n) ==
    LET lo == k * (n % MAX_INT16)
        hi == k * (n \div MAX_INT16) + (lo \div MAX_INT16)
    IN  U32(hi % MAX_INT16, lo % MAX_INT16)

advanceTimestamp16(current, increment) ==
    U32Add(current, increment % MAX_INT16)

advanceTimestamp(current, increment) == U32Add(current, increment)

\* the slice lengths partitionByMTU cuts a buffer of `len` bytes into
RECURSIVE partitionByMTU(_, _)
partitionByMTU(len, mtu) ==
    IF len <= 0 THEN <<>>
    ELSE <<Min(len, mtu)>> \o partitionByMTU(len - Min(len, mtu), mtu)

\* ------------------------------------------------------------------------
\* Encryptor.ts (AES256Encryptor / ChaCha20Encryptor): the nonce counter
\* ------------------------------------------------------------------------

NextNonceStuck(n) == n

\* this._nonce = (this._nonce + 1) % MAX_INT32
NextNonce(n) == U32Add(n, 1)

NonceAfterOnce(nonce, n) == IF n = 0 THEN nonce ELSE NextNonce(nonce)

\* the encryptor's counter after n encrypt calls: one step per call
RECURSIVE NonceAfter(_, _)
NonceAfter(nonce, n) ==
    IF n = 0 THEN nonce ELSE NonceAfter(NextNonce(nonce), n - 1)

\* ------------------------------------------------------------------------
\* State
\* ------------------------------------------------------------------------

VARIABLES
    codec,        \* VideoPacketizer._codec
    dmx,          \* the demux call: its closure variables, pipes and resources
    app,          \* a library function applied on its own: argument and result
    udpReady,     \* UdpTransport._ready
    encNonce,     \* UdpTransport.encryptor._nonce (one encryptor per transport)
    pk,           \* the two packetizers' fields
    task,         \* the sendFrame call in flight on each packetizer
    handed,       \* per SSRC: the packets passed to UdpTransport.sendPacket, in order
    encCalls,     \* per SSRC: the nonces its encrypt calls were given, in call order
    sentBefore,   \* per SSRC: RTP packets sent before the behaviour starts
    callsBefore,  \* encrypt calls made before the behaviour starts (32-bit)
    fed,          \* per SSRC: frames fed so far
    reordered     \* per SSRC: an encryption completed before one started earlier

rtpVars == <<codec, dmx, app, udpReady, encNonce, pk, task, handed, encCalls,
             sentBefore, callsBefore, fed, reordered>>

VARIABLES
    gw,           \* the VoiceGateway object and the WebSockets it created
    origin,       \* per WebSocket yet to open: what opened it ("setter" or "resume")
    lastSeq,      \* the seq field of the last inbound message that had one
    ev            \* the handler that ran last and what it did

gwVars == <<gw, origin, lastSeq, ev>>

VARIABLES
    cl,           \* StreamerClient: the joinVoice or createStream call and its gateway reference
    udp,          \* the UdpTransport the call's "ready" handler creates
    play          \* the playStream call: its promise executor's variables and streams

clVars == <<cl, udp, play>>

\* the packetizers' variables: all of rtpVars but UdpTransport._ready
pkVars == <<codec, dmx, app, encNonce, pk, task, handed, encCalls, sentBefore,
            callsBefore, fed, reordered>>

vars == <<rtpVars, gwVars, clVars>>

Ssrcs == {"audio", "video"}

Codecs == {"H264", "H265", "VP8"}

\* an access unit is the sequence of its NAL lengths; an Opus frame <<length>>
VideoFrames == { <<100>>, <<2500>>, <<100, 1300>> }

AudioFrames == { <<160>> }

FrameTimes == {20, 1000}

\* demux has not been called
NoDemux ==
    [pc |-> "none", error |-> <<>>, video |-> FALSE, audio |-> FALSE,
     device |-> FALSE, released |-> 0, drainListeners |-> FALSE,
     reading |-> FALSE, paused |-> FALSE, reads |-> 0, last |-> "none",
     buf |-> [p \in Ssrcs |-> 0], needDrain |-> [p \in Ssrcs |-> FALSE],
     ended |-> {}, written |-> [p \in Ssrcs |-> 0],
     taken |-> [p \in Ssrcs |-> 0], blocked |-> 0, readsAfterEnd |-> 0,
     returned |-> [p \in Ssrcs |-> 0], put |-> [p \in Ssrcs |-> <<>>]]

\* no function is applied on its own
NoApp == [arg |-> <<>>, ret |-> <<>>, done |-> FALSE]

Idle == [pc |-> "idle", frame |-> <<>>, frametime |-> 0, nal |-> 0,
         pending |-> <<>>, packetsSent |-> 0, bytesSent |-> 0]

\* ------------------------------------------------------------------------
\* Packet shapes: what one synchronous stretch of sendFrame builds
\* ------------------------------------------------------------------------

RECURSIVE SumLen(_)
SumLen(frame) ==
    IF frame = <<>> THEN 0 ELSE 4 + Head(frame) + SumLen(Tail(frame))

\* h264SplitHeader / h265SplitHeader: the NAL header's length
NalHeaderLenOne(c) == 1

NalHeaderLen(c) == IF c = "H265" THEN 2 ELSE 1

PictureIdFieldLow8(pictureId) == 32768 + (pictureId % 256)

\* pictureId.writeUIntBE(this._pictureId, 0, 2); pictureId[0] |= 0x80: the two
\* bytes as one number
PictureIdField(pictureId) ==
    IF pictureId >= 32768 THEN pictureId ELSE pictureId + 32768

\* makeH264FUHeader / makeH265FUHeader: the start (0x80) and end (0x40)
\* bits of the FU header's last byte, which are or-ed to the NAL type
FUBits(isFirst, isLast) ==
    IF isFirst THEN 128 ELSE IF isLast THEN 64 ELSE 0

HeaderLenRtpOnly(extension) == 12

\* packetHeader: makeRtpHeader's 12 bytes, for video followed by the 4 bytes
\* of createExtensionHeader
HeaderLen(extension) == IF extension THEN 12 + 4 ELSE 12

\* A shape is what the code fixes for one packet before any await: marker,
\* length on the wire, the NAL unit it belongs to and how many of its bytes
\* it carries, the FU header's bits (S bit of the VP8 descriptor), and the
\* lengths of the two arguments of encryptor.encrypt: the plaintext, of
\* which the first `ext` bytes are createExtensionPayload's, and the
\* additional data.

\* AudioPacketizer.sendFrame: one packet, marker set, no extension
AudioShapes(frame) ==
    << [marker |-> TRUE, len |-> 12 + (frame[1] + 16) + 4, frag |-> "whole",
        nal |-> 1, payload |-> frame[1], bits |-> 0,
        aad |-> HeaderLen(FALSE), plain |-> frame[1], ext |-> 0] >>

\* _sendVP8Frame: one packet per MTU chunk of the frame
VP8Shapes(frame) ==
    LET chunks == partitionByMTU(SumLen(frame), MTU)
        n == Len(chunks)
    IN  [i \in 1..n |->
            [marker |-> (i = n),
             len |-> 12 + 4 + (4 + 2 + 2 + chunks[i] + 16) + 4,
             frag |-> IF i = 1 THEN "first" ELSE "next",
             nal |-> 1, payload |-> chunks[i],
             bits |-> IF i = 1 THEN 16 ELSE 0,
             aad |-> HeaderLen(TRUE), plain |-> 4 + 2 + 2 + chunks[i],
             ext |-> 4]]

\* _sendAnnexBFrame, one iteration of the NAL loop
AnnexBShapes(c, frame, idx) ==
    LET nalu == frame[idx]
        isLastNal == (idx = Len(frame))
        h == NalHeaderLen(c)
        fragments == partitionByMTU(nalu - h, MTU)
        n == Len(fragments)
    IN  IF nalu <= MTU
        THEN << [marker |-> isLastNal, len |-> 12 + 4 + (4 + nalu + 16) + 4,
                 frag |-> "whole", nal |-> idx, payload |-> nalu,
                 bits |-> 0, aad |-> HeaderLen(TRUE), plain |-> 4 + nalu,
                 ext |-> 4] >>
        ELSE [i \in 1..n |->
                [marker |-> (isLastNal /\ i = n),
                 len |-> 12 + 4 + (4 + (h + 1) + fragments[i] + 16) + 4,
                 frag |-> IF i = 1 THEN "first"
                          ELSE IF i = n THEN "last" ELSE "middle",
                 nal |-> idx, payload |-> fragments[i],
                 bits |-> FUBits(i = 1, i = n),
                 aad |-> HeaderLen(TRUE),
                 plain |-> 4 + (h + 1) + fragments[i], ext |-> 4]]

Shapes(p, c, frame, idx) ==
    IF p = "audio" THEN AudioShapes(frame)
    ELSE IF c = "VP8" THEN VP8Shapes(frame)
    ELSE AnnexBShapes(c, frame, idx)

\* the NAL loop runs once for VP8 and for audio
Rounds(p, c, frame) ==
    IF p = "audio" \/ c = "VP8" THEN 1 ELSE Len(frame)

\* the shapes of a whole frame, from round idx on
RECURSIVE FrameShapes(_, _, _, _)
FrameShapes(p, c, frame, idx) ==
    IF idx > Rounds(p, c, frame) THEN <<>>
    ELSE Shapes(p, c, frame, idx) \o FrameShapes(p, c, frame, idx + 1)

\* _makeRtpHeader + encryptor.encrypt for each shape, in index order: packet i
\* takes the sequence number and the nonce current when it is built
\* (media is the media time of the frame the packet belongs to; it is not a
\* field of the packet. pid is the picture id field, which only VP8 packets
\* have)
RECURSIVE BuildPackets(_, _, _, _, _, _)
BuildPackets(shapes, seq, ts, nonce, media, pictureId) ==
    IF shapes = <<>> THEN <<>>
    ELSE << [kind |-> "rtp", seq |-> seq, ts |-> ts, nonce |-> nonce,
             marker |-> Head(shapes).marker, len |-> Head(shapes).len,
             frag |-> Head(shapes).frag, media |-> media,
             pid |-> PictureIdField(pictureId), done |-> FALSE] >>
         \o BuildPackets(Tail(shapes), nextSequence(seq), ts, NextNonce(nonce),
                         media, pictureId)

RECURSIVE SeqAfter(_, _)
SeqAfter(seq, n) == IF n = 0 THEN seq ELSE SeqAfter(nextSequence(seq), n - 1)

Nonces(packets) == [i \in 1..Len(packets) |-> packets[i].nonce]

RECURSIVE SumPacketLen(_)
SumPacketLen(packets) ==
    IF packets = <<>> THEN 0
    ELSE Head(packets).len + SumPacketLen(Tail(packets))

\* ------------------------------------------------------------------------
\* UdpTransport.sendPacket and the packetizers' sendFrame
\* ------------------------------------------------------------------------

NonceTailLE(nonce) ==
    << nonce[2] % 256, nonce[2] \div 256, nonce[1] % 256, nonce[1] \div 256 >>

\* nonceBuffer.writeUInt32BE(this._nonce) in encrypt, nonce.subarray(0, 4)
\* where the packet is put together: the four bytes that end the packet
NonceTail(nonce) ==
    << nonce[1] \div 256, nonce[1] % 256, nonce[2] \div 256, nonce[2] % 256 >>

\* sendPacket: the datagram is written only when the transport is ready
Datagram(packet, ready) ==
    [kind |-> packet.kind, seq |-> packet.seq, ts |-> packet.ts,
     nonce |-> packet.nonce, marker |-> packet.marker, len |-> packet.len,
     frag |-> packet.frag, media |-> packet.media, pid |-> packet.pid,
     tail |-> NonceTail(packet.nonce), wire |-> ready]

\* the entries of `pending` whose index is in S, in index order
RECURSIVE Pick(_, _, _)
Pick(pending, S, i) ==
    IF i > Len(pending) THEN <<>>
    ELSE (IF i \in S THEN <<pending[i]>> ELSE <<>>) \o Pick(pending, S, i + 1)

SendableAsCompleted(pending) == {i \in 1..Len(pending) : pending[i].done}

\* await Promise.all(encryptedPackets): nothing is sent until every
\* encryption of the round has completed, then all are sent in index order
Sendable(pending) ==
    IF \A i \in 1..Len(pending) : pending[i].done
    THEN 1..Len(pending) ELSE {}

\* floor(mediaTimestamp / srInterval) - floor(lastRtcpTime / srInterval) > 0
SrDue(lastRtcpTime, mediaTimestamp) ==
    (mediaTimestamp \div SR_INTERVAL) - (lastRtcpTime \div SR_INTERVAL) > 0

\* the RTP clock ticks per millisecond: 90 kHz video, 48 kHz audio
ClockRate(p) == IF p = "audio" THEN 48 ELSE 90

\* the tail of sendFrame once nothing is left to await: media time, RTP
\* timestamp and (VP8) the picture id advance
Advance(p, c, f, frametime) ==
    [f EXCEPT !.mediaTimestamp = @ + frametime,
              !.timestamp = advanceTimestamp(@, ClockRate(p) * frametime),
              !.pictureId = IF p = "video" /\ c = "VP8"
                            THEN (@ + 1) % MAX_INT16 ELSE @]

\* _onFrameSent (and the same lines of AudioPacketizer.sendFrame) for the
\* frame of task record t: the totals are counted, then either a Sender
\* Report is built and its encryption awaited, or the frame ends
OnFrameSent(p, t, sent, bytes) ==
    LET counted == [pk[p] EXCEPT
                      !.totalPackets = @ + sent,
                      !.totalBytes = U32Add(@, bytes)]
    IN  IF SrDue(counted.lastRtcpTime, counted.mediaTimestamp)
        THEN /\ pk' = [pk EXCEPT ![p] = counted]
             /\ encNonce' = NextNonce(encNonce)
             /\ encCalls' = [encCalls EXCEPT ![p] = Append(@, encNonce)]
             /\ task' = [task EXCEPT ![p] =
                    [t EXCEPT
                       !.pc = "sr",
                       !.packetsSent = sent,
                       !.bytesSent = bytes,
                       !.pending =
                          << [kind |-> "sr", seq |-> 0,
                              ts |-> counted.timestamp,
                              nonce |-> encNonce, marker |-> FALSE,
                              len |-> 8 + (20 + 16) + 4,
                              frag |-> "whole",
                              media |-> counted.mediaTimestamp,
                              pid |-> 0,
                              done |-> FALSE] >>]]
        ELSE /\ pk' = [pk EXCEPT ![p] =
                    Advance(p, codec, counted, t.frametime)]
             /\ task' = [task EXCEPT ![p] = Idle]
             /\ UNCHANGED <<encNonce, encCalls>>

\* sendFrame up to its first await: the RTP headers of the first round are
\* built and their encryptions started; an Annex B access unit without NAL
\* units has no round and runs straight into _onFrameSent
StartFrame(p, frame, frametime) ==
    /\ task[p].pc = "idle"
    /\ fed["audio"] + fed["video"] < MaxFrames
    /\ IF Rounds(p, codec, frame) = 0
       THEN OnFrameSent(p, [pc |-> "enc", frame |-> frame,
                            frametime |-> frametime, nal |-> 1,
                            pending |-> <<>>, packetsSent |-> 0,
                            bytesSent |-> 0], 0, 0)
       ELSE
       LET shapes == Shapes(p, codec, frame, 1)
           packets == BuildPackets(shapes, pk[p].sequence, pk[p].timestamp,
                                   encNonce, pk[p].mediaTimestamp,
                                   pk[p].pictureId)
       IN  /\ pk' = [pk EXCEPT ![p].sequence = SeqAfter(@, Len(shapes))]
           /\ encNonce' = NonceAfter(encNonce, Len(shapes))
           /\ encCalls' = [encCalls EXCEPT ![p] = @ \o Nonces(packets)]
           /\ task' = [task EXCEPT ![p] =
                  [pc |-> "enc", frame |-> frame, frametime |-> frametime,
                   nal |-> 1, pending |-> packets,
                   packetsSent |-> 0, bytesSent |-> 0]]
    /\ fed' = [fed EXCEPT ![p] = @ + 1]
    /\ UNCHANGED <<codec, dmx, app, udpReady, handed, sentBefore, callsBefore, reordered>>

\* one encrypt promise settles; the promises of a round settle in any order
EncryptDone(p, i) ==
    /\ task[p].pc \in {"enc", "sr"}
    /\ i \in 1..Len(task[p].pending)
    /\ ~task[p].pending[i].done
    /\ task' = [task EXCEPT ![p].pending[i].done = TRUE]
    /\ reordered' = [reordered EXCEPT ![p] =
                        @ \/ \E j \in 1..(i - 1) : ~task[p].pending[j].done]
    /\ UNCHANGED <<codec, dmx, app, udpReady, encNonce, pk, handed, encCalls,
                   sentBefore, callsBefore, fed>>

\* the await of a round returns: its packets go to sendPacket, then the next
\* NAL's round is built, or _onFrameSent runs up to the Sender Report's await
SendRound(p) ==
    /\ task[p].pc = "enc"
    /\ Sendable(task[p].pending) # {} \/ task[p].pending = <<>>
    /\ LET t == task[p]
           S == Sendable(t.pending)
           out == Pick(t.pending, S, 1)
           rest == Pick(t.pending, (1..Len(t.pending)) \ S, 1)
           sent == t.packetsSent + Len(out)
           bytes == t.bytesSent + SumPacketLen(out)
           grams == [i \in 1..Len(out) |-> Datagram(out[i], udpReady)]
       IN  /\ handed' = [handed EXCEPT ![p] = @ \o grams]
           /\ IF rest # <<>>
              THEN /\ task' = [task EXCEPT ![p].pending = rest,
                                           ![p].packetsSent = sent,
                                           ![p].bytesSent = bytes]
                   /\ UNCHANGED <<pk, encNonce, encCalls>>
              ELSE IF t.nal < Rounds(p, codec, t.frame)
              THEN LET shapes == Shapes(p, codec, t.frame, t.nal + 1)
                       packets == BuildPackets(shapes, pk[p].sequence,
                                               pk[p].timestamp, encNonce,
                                               pk[p].mediaTimestamp,
                                               pk[p].pictureId)
                   IN  /\ pk' = [pk EXCEPT ![p].sequence = SeqAfter(@, Len(shapes))]
                       /\ encNonce' = NonceAfter(encNonce, Len(shapes))
                       /\ encCalls' = [encCalls EXCEPT ![p] = @ \o Nonces(packets)]
                       /\ task' = [task EXCEPT ![p].pending = packets,
                                               ![p].nal = t.nal + 1,
                                               ![p].packetsSent = sent,
                                               ![p].bytesSent = bytes]
              ELSE OnFrameSent(p, t, sent, bytes)
    /\ UNCHANGED <<codec, dmx, app, udpReady, sentBefore, callsBefore, fed, reordered>>

\* makeRtcpSenderReport's await returns: the report is sent and the frame ends
SendReport(p) ==
    /\ task[p].pc = "sr"
    /\ task[p].pending[1].done
    /\ handed' = [handed EXCEPT ![p] =
                     Append(@, Datagram(task[p].pending[1], udpReady))]
    /\ pk' = [pk EXCEPT ![p] =
                 Advance(p, codec,
                         [pk[p] EXCEPT !.lastRtcpTime = pk[p].mediaTimestamp],
                         task[p].frametime)]
    /\ task' = [task EXCEPT ![p] = Idle]
    /\ UNCHANGED <<codec, dmx, app, udpReady, encNonce, encCalls, sentBefore,
                   callsBefore, fed, reordered>>

\* the two packetizers as setupPacketizers creates them (s = 0), or after s
\* packets and as many encrypt calls short of the 32-bit wrap
InitPacketizers(c, s) ==
    /\ codec = c
    /\ dmx = NoDemux
    /\ sentBefore = [p \in Ssrcs |-> s]
    /\ pk = [p \in Ssrcs |->
               [sequence |-> s % MAX_INT16, timestamp |-> U32Zero,
                totalPackets |-> s, totalBytes |-> U32Zero,
                lastRtcpTime |-> 0, mediaTimestamp |-> 0,
                pictureId |-> 0]]
    /\ callsBefore = IF s = 0 THEN U32Zero ELSE U32Below(WrapMargin)
    /\ encNonce = callsBefore
    /\ reordered = [p \in Ssrcs |-> FALSE]
    /\ task = [p \in Ssrcs |-> Idle]
    /\ handed = [p \in Ssrcs |-> <<>>]
    /\ encCalls = [p \in Ssrcs |-> <<>>]
    /\ fed = [p \in Ssrcs |-> 0]

InitRtpAt(c, s) ==
    /\ udpReady = TRUE
    /\ InitPacketizers(c, s)

\* no StreamerClient call, transport or playStream call is part of the run
NoClient ==
    [kind |-> "none", pc |-> "none", gateway |-> FALSE, listeners |-> FALSE,
     steps |-> <<>>]

NoUdp ==
    [made |-> FALSE, encryptor |-> "null", packetizers |-> FALSE,
     closed |-> FALSE]

NoPlay ==
    [pc |-> "none", hasVideo |-> FALSE, hasAudio |-> FALSE,
     finished |-> FALSE, videoDone |-> FALSE, audioDone |-> FALSE,
     sinks |-> "none", demux |-> "none", ended |-> {}, poll |-> FALSE,
     aborted |-> FALSE, cancelled |-> FALSE, signals |-> <<>>,
     outcome |-> "pending", errored |-> {},
     writing |-> [p \in Ssrcs |-> "idle"]]

InitNoClient ==
    /\ cl = NoClient
    /\ udp = NoUdp
    /\ play = NoPlay

NextRtp ==
    \/ \E f \in VideoFrames, ft \in FrameTimes :
          StartFrame("video", f, ft) /\ UNCHANGED <<gwVars, clVars>>
    \/ \E f \in AudioFrames, ft \in FrameTimes :
          StartFrame("audio", f, ft) /\ UNCHANGED <<gwVars, clVars>>
    \/ \E p \in Ssrcs, i \in 1..3 : EncryptDone(p, i) /\ UNCHANGED <<gwVars, clVars>>
    \/ \E p \in Ssrcs : SendRound(p) /\ UNCHANGED <<gwVars, clVars>>
    \/ \E p \in Ssrcs : SendReport(p) /\ UNCHANGED <<gwVars, clVars>>

\* frames of a slow stream: an access unit may hold no NAL unit at all, and
\* frame times of 600 ms and 1000 ms cross a Sender Report interval within
\* MaxFrames frames
SrVideoFrames == { <<>>, <<100>> }

SrFrameTimes == {600, 1000}

NextSr ==
    \/ \E f \in SrVideoFrames, ft \in SrFrameTimes :
          StartFrame("video", f, ft) /\ UNCHANGED <<gwVars, clVars>>
    \/ \E f \in AudioFrames, ft \in SrFrameTimes :
          StartFrame("audio", f, ft) /\ UNCHANGED <<gwVars, clVars>>
    \/ \E p \in Ssrcs : EncryptDone(p, 1) /\ UNCHANGED <<gwVars, clVars>>
    \/ \E p \in Ssrcs : SendRound(p) /\ UNCHANGED <<gwVars, clVars>>
    \/ \E p \in Ssrcs : SendReport(p) /\ UNCHANGED <<gwVars, clVars>>

\* ------------------------------------------------------------------------
\* sendFrame on a transport whose encryptor is still null
\* ------------------------------------------------------------------------

\* the RTP headers sendFrame builds, each advancing _sequence, before it
\* reads this._udp.encryptor and throws: one for Opus and for an Annex B
\* frame with a NAL unit, one per chunk for VP8 (every _createVP8Packet
\* call of the map runs up to its throw)
HeadersBeforeCheck(p, c, frame) ==
    IF p = "audio" THEN 1
    ELSE IF c = "VP8" THEN Len(VP8Shapes(frame))
    ELSE IF Len(frame) > 0 THEN 1 ELSE 0

\* whether the call reaches one of the `if (!encryptor) throw` lines: when
\* it builds a packet, or when _onFrameSent finds a Sender Report due
ReachesCheck(p, c, frame, f) ==
    \/ HeadersBeforeCheck(p, c, frame) > 0
    \/ SrDue(f.lastRtcpTime, f.mediaTimestamp)

\* a whole sendFrame call without encryptor: it never reaches an encrypt
\* call or sendPacket; app keeps the call and how its promise settled
SendFrameNoEncryptor(p, frame, frametime) ==
    /\ udp.encryptor = "null"
    /\ task[p] = Idle
    /\ fed[p] < MaxFrames
    /\ LET f1 == [pk[p] EXCEPT
                    !.sequence = SeqAfter(@, HeadersBeforeCheck(p, codec, frame))]
           threw == ReachesCheck(p, codec, frame, pk[p])
       IN  /\ pk' = [pk EXCEPT ![p] = IF threw THEN f1
                                      ELSE Advance(p, codec, f1, frametime)]
           /\ app' = [arg |-> <<p, frame>>,
                      ret |-> IF threw THEN <<"Encryptor not set">>
                              ELSE <<"resolved">>,
                      done |-> TRUE]
    /\ fed' = [fed EXCEPT ![p] = @ + 1]
    /\ UNCHANGED <<codec, dmx, udpReady, encNonce, task, handed, encCalls,
                   sentBefore, callsBefore, reordered>>

\* ------------------------------------------------------------------------
\* VoiceGateway (FFmpegPipeline.ts, class VoiceGateway)
\* ------------------------------------------------------------------------

\* WebSockets one gateway creates in a behaviour
MaxSockets == 3

\* largest seq field an inbound message carries
MaxSeq == 1

\* close codes of a socket the server closes, of a connection attempt that
\* fails, and of a socket closed locally
ServerCloseCodes == {1006, 4014, 4015}

FailedConnectCodes == {1006}

LocalCloseCodes == {1005}

\* the seq field of an inbound message: absent, or <<n>>
SeqFields == {<<>>} \cup {<<n>> : n \in 0..MaxSeq}

InboundOps == {"READY", "HELLO", "SELECT_PROTOCOL_ACK", "RESUMED", "SPEAKING"}

AES256 == "aead_aes256_gcm_rtpsize"

XCHACHA20 == "aead_xchacha20_poly1305_rtpsize"

\* the modes list a READY carries
ReadyModes == { {AES256, XCHACHA20} }

HeartbeatIntervals == {13750}

\* the gateway as constructed
NewGateway ==
    [hasSession |-> FALSE, hasToken |-> FALSE, started |-> FALSE,
     resuming |-> FALSE, ws |-> 0, sequenceNumber |-> -1, heartbeat |-> 0,
     sessionId |-> "null", server |-> "null", token |-> "null",
     webRtcParams |-> <<>>, encryptor |-> "null", forceChacha20 |-> FALSE,
     sock |-> <<>>, timers |-> <<>>]

NoEvent ==
    [kind |-> "none", sock |-> 0, code |-> 0, op |-> "none",
     wasStarted |-> FALSE, byStop |-> FALSE, opened |-> 0, sent |-> <<>>,
     interval |-> 0]

\* _tryStart: opens a WebSocket unless a setter is still missing or the
\* gateway counts as started
TryStart(g) ==
    IF ~g.hasSession \/ ~g.hasToken THEN g
    ELSE IF g.started THEN g
    ELSE [g EXCEPT !.started = TRUE,
                   !.sock = Append(@, "connecting"),
                   !.ws = Len(g.sock) + 1]

\* _sendOpcode: this._ws?.send(...): the write goes to whatever socket _ws
\* names, in whatever state that socket is; nothing is written when _ws is null
SendOpcode(g, op, d) ==
    IF g.ws = 0 THEN <<>>
    ELSE << [op |-> op, to |-> g.ws, state |-> g.sock[g.ws], d |-> d] >>

\* get serverId
ServerId == "guild"

IdentifyPayload(g) ==
    [server_id |-> ServerId, session_id |-> g.sessionId, token |-> g.token]

ResumePayload(g) ==
    [server_id |-> ServerId, session_id |-> g.sessionId, token |-> g.token,
     seq_ack |-> g.sequenceNumber]

\* the origins of the sockets after a step that may have opened one
Origins(g2, why) ==
    IF Len(g2.sock) > Len(gw.sock) THEN Append(origin, why) ELSE origin

\* setSession
SetSession(id) ==
    LET g2 == TryStart([gw EXCEPT !.sessionId = id, !.hasSession = TRUE])
    IN  /\ Len(g2.sock) <= MaxSockets
        /\ gw' = g2
        /\ origin' = Origins(g2, "setter")
        /\ ev' = [NoEvent EXCEPT !.kind = "setter",
                                 !.opened = Len(g2.sock) - Len(gw.sock)]
        /\ UNCHANGED lastSeq

\* setTokens
SetTokens(server, token) ==
    LET g2 == TryStart([gw EXCEPT !.server = server, !.token = token,
                                  !.hasToken = TRUE])
    IN  /\ Len(g2.sock) <= MaxSockets
        /\ gw' = g2
        /\ origin' = Origins(g2, "setter")
        /\ ev' = [NoEvent EXCEPT !.kind = "setter",
                                 !.opened = Len(g2.sock) - Len(gw.sock)]
        /\ UNCHANGED lastSeq

\* the WebSocket's "open" handler
WsOpen(s) ==
    /\ s \in 1..Len(gw.sock)
    /\ gw.sock[s] = "connecting"
    /\ LET g1 == [gw EXCEPT !.sock[s] = "open"]
           g2 == [g1 EXCEPT !.resuming = FALSE]
           sent == IF g1.resuming
                   THEN SendOpcode(g2, "RESUME", ResumePayload(g2))
                   ELSE SendOpcode(g2, "IDENTIFY", IdentifyPayload(g2))
       IN  /\ gw' = g2
           /\ ev' = [NoEvent EXCEPT !.kind = "open", !.sock = s, !.sent = sent,
                                    !.op = origin[s]]
    /\ origin' = [origin EXCEPT ![s] = "-"]
    /\ UNCHANGED lastSeq

\* const canResume = code === 4015 || code < 4000
CanResume(code) == code = 4015 \/ code < 4000

\* the WebSocket's "close" handler
WsClose(s, code) ==
    /\ s \in 1..Len(gw.sock)
    /\ \/ gw.sock[s] = "open" /\ code \in ServerCloseCodes
       \/ gw.sock[s] = "connecting" /\ code \in FailedConnectCodes
       \/ gw.sock[s] = "closing" /\ code \in LocalCloseCodes
    /\ LET wasStarted == gw.started
           g1 == [gw EXCEPT !.sock[s] = "closed", !.started = FALSE]
           g2 == IF CanResume(code) /\ wasStarted
                 THEN TryStart([g1 EXCEPT !.resuming = TRUE])
                 ELSE g1
       IN  /\ Len(g2.sock) <= MaxSockets
           /\ gw' = g2
           /\ origin' = [Origins(g2, "resume") EXCEPT ![s] = "-"]
           /\ ev' = [NoEvent EXCEPT !.kind = "close", !.sock = s,
                                    !.code = code, !.wasStarted = wasStarted,
                                    !.byStop = gw.sock[s] = "closing",
                                    !.opened = Len(g2.sock) - Len(gw.sock)]
    /\ UNCHANGED lastSeq

\* if (seq) this._sequenceNumber = seq
TakeSeq(g, seq) ==
    IF seq # <<>> /\ seq[1] # 0 THEN [g EXCEPT !.sequenceNumber = seq[1]] ELSE g

\* _handleProtocolAck: the encryptor the ack's mode selects
EncryptorFor(g, mode) ==
    IF mode = AES256 /\ ~g.forceChacha20 THEN "AES256Encryptor"
    ELSE "ChaCha20Encryptor"

\* if (this._heartbeatInterval) clearInterval(this._heartbeatInterval):
\* timers holds the intervals of the timers that are running, in the order
\* they were started; the handle always names the one started last
ClearHeartbeat(g) ==
    IF g.heartbeat # 0
    THEN [g EXCEPT !.timers = SubSeq(@, 1, Len(@) - 1)]
    ELSE g

SetupHeartbeatNoClear(g, interval) ==
    [g EXCEPT !.timers = Append(@, interval), !.heartbeat = interval]

\* _setupHeartbeat: the timer the handle names is cleared, a new one is
\* started and the handle names it
SetupHeartbeat(g, interval) ==
    [ClearHeartbeat(g) EXCEPT !.timers = Append(@, interval),
                              !.heartbeat = interval]

\* the switch of the "message" handler
HandleOp(g, op, d) ==
    CASE op = "READY" -> [g EXCEPT !.webRtcParams = <<d>>]
      [] op = "HELLO" -> SetupHeartbeat(g, d)
      [] op = "SELECT_PROTOCOL_ACK" -> [g EXCEPT !.encryptor = EncryptorFor(g, d)]
      [] op = "RESUMED" -> [g EXCEPT !.started = TRUE]
      [] OTHER -> g

\* what the d of each opcode can be
Payloads(op) ==
    CASE op = "READY" -> ReadyModes
      [] op = "HELLO" -> HeartbeatIntervals
      [] op = "SELECT_PROTOCOL_ACK" -> {AES256, XCHACHA20}
      [] OTHER -> {"none"}

\* the WebSocket's "message" handler, for a text message {op, d, seq}; a
\* socket that has opened delivers messages until its close event, after
\* close() too
WsMessage(s, op, d, seq) ==
    /\ s \in 1..Len(gw.sock)
    /\ \/ gw.sock[s] = "open"
       \/ gw.sock[s] = "closing" /\ origin[s] = "-"
    /\ gw' = HandleOp(TakeSeq(gw, seq), op, d)
    /\ lastSeq' = IF seq # <<>> THEN seq ELSE lastSeq
    /\ ev' = [NoEvent EXCEPT !.kind = "message", !.op = op,
                             !.interval = IF op = "HELLO" THEN d ELSE 0]
    /\ UNCHANGED origin

\* a running heartbeat timer fires
HeartbeatTick ==
    /\ \E i \in 1..Len(gw.timers) :
          ev' = [NoEvent EXCEPT !.kind = "heartbeat",
                    !.interval = gw.timers[i],
                    !.sent = SendOpcode(gw, "HEARTBEAT",
                                        [seq_ack |-> gw.sequenceNumber])]
    /\ UNCHANGED <<gw, origin, lastSeq>>

\* stop
Stop ==
    /\ gw' = [ClearHeartbeat(gw) EXCEPT
                        !.heartbeat = 0, !.started = FALSE, !.ws = 0,
                        !.sock = IF gw.ws # 0 /\ gw.sock[gw.ws] \in {"connecting", "open"}
                                 THEN [@ EXCEPT ![gw.ws] = "closing"] ELSE @]
    /\ ev' = [NoEvent EXCEPT !.kind = "stop"]
    /\ UNCHANGED <<origin, lastSeq>>

InitGwVars ==
    /\ gw = NewGateway
    /\ origin = <<>>
    /\ lastSeq = <<>>
    /\ ev = NoEvent

\* one VoiceGateway, just constructed, driven by its caller and its server
InitGw ==
    /\ InitGwVars
    /\ app = NoApp
    /\ InitRtpAt("H264", 0)
    /\ InitNoClient

NextGw ==
    \/ SetSession("session") /\ UNCHANGED <<rtpVars, clVars>>
    \/ SetTokens("endpoint", "token") /\ UNCHANGED <<rtpVars, clVars>>
    \/ \E s \in 1..MaxSockets : WsOpen(s) /\ UNCHANGED <<rtpVars, clVars>>
    \/ \E s \in 1..MaxSockets : \E code \in ServerCloseCodes \cup LocalCloseCodes :
          WsClose(s, code) /\ UNCHANGED <<rtpVars, clVars>>
    \/ \E s \in 1..MaxSockets : \E op \in InboundOps :
          \E d \in Payloads(op), seq \in SeqFields :
             /\ seq # <<>> => op = "SPEAKING"
             /\ WsMessage(s, op, d, seq) /\ UNCHANGED <<rtpVars, clVars>>
    \/ HeartbeatTick /\ UNCHANGED <<rtpVars, clVars>>
    \/ Stop /\ UNCHANGED <<rtpVars, clVars>>

SpecGw == InitGw /\ [][NextGw]_vars

\* the heartbeat_interval a HELLO carries, when the server changes it
\* between connections
HelloIntervals == {13750, 41250}

\* one VoiceGateway and the events that start, restart and stop its
\* heartbeat: HELLO messages, closes that reconnect, and stop
NextHeartbeat ==
    \/ SetSession("session") /\ UNCHANGED <<rtpVars, clVars>>
    \/ SetTokens("endpoint", "token") /\ UNCHANGED <<rtpVars, clVars>>
    \/ \E s \in 1..MaxSockets : WsOpen(s) /\ UNCHANGED <<rtpVars, clVars>>
    \/ \E s \in 1..MaxSockets : \E code \in ServerCloseCodes \cup LocalCloseCodes :
          WsClose(s, code) /\ UNCHANGED <<rtpVars, clVars>>
    \/ \E s \in 1..MaxSockets : \E d \in HelloIntervals :
          WsMessage(s, "HELLO", d, <<>>) /\ UNCHANGED <<rtpVars, clVars>>
    \/ HeartbeatTick /\ UNCHANGED <<rtpVars, clVars>>
    \/ Stop /\ UNCHANGED <<rtpVars, clVars>>

SpecHeartbeat == InitGw /\ [][NextHeartbeat]_vars

\* a transport whose packetizers were set up by createStream, with the
\* counters of a fresh session or of one that has run close to their wrap
InitRtp ==
    /\ \E c \in Codecs, s \in {0, MAX_INT16 - WrapMargin} : InitRtpAt(c, s)
    /\ app = NoApp
    /\ InitGwVars
    /\ InitNoClient

SpecRtp == InitRtp /\ [][NextRtp]_vars

\* packetizers set up on a transport that has no encryptor yet
InitNoEncryptor ==
    /\ \E c \in Codecs : InitRtpAt(c, 0)
    /\ app = NoApp
    /\ InitGwVars
    /\ cl = NoClient
    /\ play = NoPlay
    /\ udp = [NoUdp EXCEPT !.made = TRUE, !.packetizers = TRUE]

NextNoEncryptor ==
    \/ \E frame \in VideoFrames \cup SrVideoFrames, frametime \in FrameTimes :
          SendFrameNoEncryptor("video", frame, frametime)
          /\ UNCHANGED <<gwVars, clVars>>
    \/ \E frame \in AudioFrames, frametime \in FrameTimes :
          SendFrameNoEncryptor("audio", frame, frametime)
          /\ UNCHANGED <<gwVars, clVars>>

SpecNoEncryptor == InitNoEncryptor /\ [][NextNoEncryptor]_vars

\* a fresh session of either video path
InitSr ==
    /\ \E c \in {"H264", "VP8"} : InitRtpAt(c, 0)
    /\ app = NoApp
    /\ InitGwVars
    /\ InitNoClient

SpecSr == InitSr /\ [][NextSr]_vars

\* frames of 1000 ms each packetizer has sent before the behaviour starts:
\* none, or as many as bring the video (90 kHz) or the audio (48 kHz)
\* timestamp within one frame of 2^32
FramesBefore == {0, 47721, 89478}

\* both packetizers after n frames of 1000 ms, each frame one RTP packet of
\* `bytes[p]` bytes and, from the second frame on, one Sender Report
InitAfterFrames(c, n, bytes) ==
    /\ codec = c
    /\ dmx = NoDemux
    /\ udpReady = TRUE
    /\ sentBefore = [p \in Ssrcs |-> n]
    /\ pk = [p \in Ssrcs |->
               [sequence |-> n % MAX_INT16,
                timestamp |-> U32Times(ClockRate(p), n * 1000),
                totalPackets |-> n,
                totalBytes |-> U32Times(bytes[p], n),
                lastRtcpTime |-> IF n = 0 THEN 0 ELSE (n - 1) * 1000,
                mediaTimestamp |-> n * 1000,
                pictureId |-> IF c = "VP8" THEN n % MAX_INT16 ELSE 0]]
    /\ callsBefore = IF n = 0 THEN U32Zero ELSE U32Times(1, 4 * n - 2)
    /\ encNonce = callsBefore
    /\ reordered = [p \in Ssrcs |-> FALSE]
    /\ task = [p \in Ssrcs |-> Idle]
    /\ handed = [p \in Ssrcs |-> <<>>]
    /\ encCalls = [p \in Ssrcs |-> <<>>]
    /\ fed = [p \in Ssrcs |-> 0]

InitTs ==
    /\ \E c \in {"H264", "VP8"}, n \in FramesBefore :
          InitAfterFrames(c, n,
              [p \in Ssrcs |-> Shapes(p, c, <<100>>, 1)[1].len])
    /\ app = NoApp
    /\ InitGwVars
    /\ InitNoClient

SpecTs == InitTs /\ [][NextSr]_vars

\* VP8 frames of 0, 100, 1200, 1201 and 2500 bytes (a frame <<n>> has 4 + n
\* bytes)
Vp8Frames == { <<>>, <<96>>, <<1196>>, <<1197>>, <<2496>> }

\* a VP8 session that has sent no frame, or as many as bring the picture id
\* to the last 15-bit or the last 16-bit value
InitVp8 ==
    /\ \E n \in {0, 32767, 65535} :
          InitAfterFrames("VP8", n,
              [p \in Ssrcs |-> Shapes(p, "VP8", <<100>>, 1)[1].len])
    /\ app = NoApp
    /\ InitGwVars
    /\ InitNoClient

NextVp8 ==
    \/ \E f \in Vp8Frames, ft \in FrameTimes :
          StartFrame("video", f, ft) /\ UNCHANGED <<gwVars, clVars>>
    \/ \E i \in 1..3 : EncryptDone("video", i) /\ UNCHANGED <<gwVars, clVars>>
    \/ SendRound("video") /\ UNCHANGED <<gwVars, clVars>>
    \/ SendReport("video") /\ UNCHANGED <<gwVars, clVars>>

SpecVp8 == InitVp8 /\ [][NextVp8]_vars

\* ------------------------------------------------------------------------
\* The packets of one frame
\* ------------------------------------------------------------------------

\* NAL unit lengths around the MTU and around two and three fragments
NalLengths == {1, 1200, 1201, 1202, 1203, 2401, 2402, 2403}

FramesOf(p) ==
    IF p = "audio" THEN AudioFrames
    ELSE UNION { [1..n -> NalLengths] : n \in 0..MaxNals }

\* sendFrame for one frame, as far as the frame alone decides it: the
\* packets it builds, in the order it builds them
Packetize ==
    /\ ~app.done
    /\ app' = [app EXCEPT
                 !.done = TRUE,
                 !.ret = FrameShapes(app.arg.ssrc, codec, app.arg.frame, 1)]
    /\ UNCHANGED <<codec, dmx, udpReady, encNonce, pk, task, handed, encCalls,
                   sentBefore, callsBefore, fed, reordered>>

InitShapes ==
    /\ \E c \in Codecs : InitRtpAt(c, 0)
    /\ \E p \in Ssrcs : \E f \in FramesOf(p) :
          app = [arg |-> [ssrc |-> p, frame |-> f], ret |-> <<>>,
                 done |-> FALSE]
    /\ InitGwVars
    /\ InitNoClient

NextShapes == Packetize /\ UNCHANGED <<gwVars, clVars>>

SpecShapes == InitShapes /\ [][NextShapes]_vars

\* ------------------------------------------------------------------------
\* UdpTransport.ts: IP discovery, sendPacket and stop on one transport.
\* The clock counts seconds since the discoverIP call.
\* ------------------------------------------------------------------------

\* setTimeout(..., 10000)
DISCOVERY_TIMEOUT == 10

UdpStopLeavesOpen(u) == u

\* UdpTransport.stop, but for _ready
UdpStop(u) == IF u.made THEN [u EXCEPT !.closed = TRUE] ELSE u

\* bytes of a datagram the socket receives: a discovery reply has 74, and
\* msg.readUInt16BE(msg.length - 2) needs 2
DatagramLengths == {1, 74}

\* a transport after its constructor: the socket is open, no discovery yet
NewUdp ==
    [made |-> TRUE, encryptor |-> "null", packetizers |-> FALSE,
     closed |-> FALSE,
     promise |-> "none",     \* the promise discoverIP returned
     error |-> "none",       \* what it was rejected with
     timer |-> FALSE,        \* the 10 s timer is armed
     listener |-> FALSE,     \* the once("message") listener is registered
     sendCb |-> FALSE,       \* the callback of the request's send is due
     elapsed |-> 0,
     replied |-> FALSE,      \* a discovery reply was parsed
     uncaught |-> FALSE,     \* the message listener threw
     stops |-> 0,            \* stop() calls
     closeThrew |-> FALSE,   \* the last stop() closed a closed socket
     stopRaised |-> FALSE,   \* a stop() call raised
     calls |-> <<>>]         \* the sendPacket calls and what they did

\* resolve / reject: a settled promise stays as it is
Settle(u, how, err) ==
    IF u.promise = "pending"
    THEN [u EXCEPT !.promise = how, !.error = err]
    ELSE u

\* discoverIP: the timer is set, the listener registered, the request sent;
\* on a closed socket send throws and the executor's promise rejects
DiscoverIP ==
    /\ udp.promise = "none"
    /\ udp' = IF udp.closed
              THEN [udp EXCEPT !.promise = "rejected", !.error = "send",
                               !.timer = TRUE, !.listener = TRUE]
              ELSE [udp EXCEPT !.promise = "pending", !.timer = TRUE,
                               !.listener = TRUE, !.sendCb = TRUE]
    /\ UNCHANGED <<udpReady, pkVars, gwVars, cl, play>>

\* the callback of socket.send runs, with or without an error
SendCallback(err) ==
    /\ udp.sendCb
    /\ udp' = IF err
              THEN Settle([udp EXCEPT !.sendCb = FALSE, !.timer = FALSE],
                          "rejected", "send")
              ELSE [udp EXCEPT !.sendCb = FALSE]
    /\ UNCHANGED <<udpReady, pkVars, gwVars, cl, play>>

\* the once("message") listener runs for a datagram of len bytes
DatagramArrives(len) ==
    /\ udp.listener
    /\ ~udp.closed
    /\ IF len < 2
       THEN /\ udp' = [udp EXCEPT !.listener = FALSE, !.timer = FALSE,
                                  !.uncaught = TRUE]
            /\ udpReady' = udpReady
       ELSE /\ udp' = Settle([udp EXCEPT !.listener = FALSE, !.timer = FALSE,
                                         !.replied = TRUE],
                             "resolved", "none")
            /\ udpReady' = TRUE
    /\ UNCHANGED <<pkVars, gwVars, cl, play>>

\* the 10 s timer fires
DiscoveryTimeout ==
    /\ udp.timer
    /\ udp.elapsed >= DISCOVERY_TIMEOUT
    /\ udp' = Settle([udp EXCEPT !.timer = FALSE], "rejected", "timeout")
    /\ UNCHANGED <<udpReady, pkVars, gwVars, cl, play>>

\* a second passes; a timer that is due fires first
Tick ==
    /\ udp.promise # "none"
    /\ udp.elapsed < MaxClock
    /\ ~(udp.timer /\ udp.elapsed >= DISCOVERY_TIMEOUT)
    /\ udp' = [udp EXCEPT !.elapsed = @ + 1]
    /\ UNCHANGED <<udpReady, pkVars, gwVars, cl, play>>

SendPacketOutcomeUnguarded(ready, closed) ==
    IF closed THEN "threw" ELSE "written"

\* sendPacket: nothing happens unless _ready; socket.send throws on a closed
\* socket
SendPacketOutcome(ready, closed) ==
    IF ~ready THEN "dropped"
    ELSE IF closed THEN "threw" ELSE "written"

SendPacket ==
    /\ Len(udp.calls) < MaxPackets
    /\ udp' = [udp EXCEPT !.calls = Append(@,
                  [out |-> SendPacketOutcome(udpReady, udp.closed),
                   replied |-> udp.replied, stopped |-> udp.stops > 0])]
    /\ UNCHANGED <<udpReady, pkVars, gwVars, cl, play>>

\* stop: _ready = false; socket.close() throws on a closed socket, inside
\* the try block
StopTransport ==
    /\ udp.stops < MaxStops
    /\ udpReady' = FALSE
    /\ udp' = [UdpStop(udp) EXCEPT !.stops = @ + 1,
                                   !.closeThrew = udp.closed]
    /\ UNCHANGED <<pkVars, gwVars, cl, play>>

InitUdp ==
    /\ udpReady = FALSE
    /\ InitPacketizers("H264", 0)
    /\ app = NoApp
    /\ InitGwVars
    /\ cl = NoClient
    /\ play = NoPlay
    /\ udp = NewUdp

NextUdp ==
    \/ DiscoverIP
    \/ \E err \in BOOLEAN : SendCallback(err)
    \/ \E len \in DatagramLengths : DatagramArrives(len)
    \/ DiscoveryTimeout
    \/ Tick
    \/ SendPacket
    \/ StopTransport

SpecUdp == InitUdp /\ [][NextUdp]_vars

\* ------------------------------------------------------------------------
\* MediaStream.ts: pacing of a media sink.  Times are in microseconds
\* (packet.pts is; performance.now() has fractions of a millisecond).
\* ------------------------------------------------------------------------

\* packet.pts, and performance.now() - _startTime when _write is called
PtsValues == {0, 20000, 40000, 300000}

ElapsedValues == {0, 19000, 19500, 20000, 20500, 240000, 240001, 500000}

\* how long after the requested delay a timer fires
TimerLateness == {0, 2000}

calcSleepMsIgnorePts(firstFrame, pts, elapsed) == 0

\* _calcSleepMs; pts and the result in microseconds
calcSleepMs(firstFrame, pts, elapsed) ==
    LET diff == pts - elapsed
    IN  IF firstFrame THEN 0
        ELSE IF diff < -200000 THEN 0
        ELSE IF diff > 0 THEN diff
        ELSE 0

\* _write up to the sendVideoFrame / sendAudioFrame call: the timer it
\* requests, if any, and the time since _startTime at which the frame is
\* handed to the packetizer (the first frame sets _startTime)
Write ==
    /\ ~app.done
    /\ LET sleep == calcSleepMs(app.arg.firstFrame, app.arg.pts,
                                app.arg.elapsed)
           now == IF app.arg.firstFrame THEN 0 ELSE app.arg.elapsed
       IN  IF sleep > 1000
           THEN \E late \in TimerLateness :
                   app' = [app EXCEPT
                             !.done = TRUE,
                             !.ret = [timeout |-> <<sleep>>,
                                      handedAt |-> now + sleep + late]]
           ELSE app' = [app EXCEPT
                          !.done = TRUE,
                          !.ret = [timeout |-> <<>>, handedAt |-> now]]
    /\ UNCHANGED <<codec, dmx, udpReady, encNonce, pk, task, handed, encCalls,
                   sentBefore, callsBefore, fed, reordered>>

InitSink ==
    /\ InitRtpAt("H264", 0)
    /\ app \in [arg : [firstFrame : BOOLEAN, pts : PtsValues,
                        elapsed : ElapsedValues],
                 ret : {<<>>}, done : {FALSE}]
    /\ InitGwVars
    /\ InitNoClient

NextSink == Write /\ UNCHANGED <<gwVars, clVars>>

SpecSink == InitSink /\ [][NextSink]_vars

\* ------------------------------------------------------------------------
\* Demuxer.ts: parameter-set injection
\* ------------------------------------------------------------------------

H264_IDR == 5

H264_SPS == 7

H264_PPS == 8

H265_IDR_W_RADL == 19

H265_IDR_N_LP == 20

H265_VPS == 32

H265_SPS == 33

H265_PPS == 34

\* H.264: nalu[0] & 0x1F; H.265: (nalu[0] >> 1) & 0x3F
NalType(c, nalu) ==
    IF c = "H265" THEN (nalu[1] \div 2) % 64 ELSE nalu[1] % 32

\* a NAL unit is the sequence of its bytes; these are cut after the first
\* byte: H.265 trailing slice, the two IDR slices, VPS, SPS and PPS, H.264
\* non-IDR slice, IDR slice, SPS, PPS and access unit delimiter
Nals(c) ==
    IF c = "H265" THEN { <<2>>, <<38>>, <<40>>, <<64>>, <<66>>, <<68>> }
    ELSE { <<65>>, <<101>>, <<103>>, <<104>>, <<9>> }

\* the parameter sets parseavcC / parsehvcC read from the extradata
Extra(c) ==
    IF c = "H265"
    THEN [vps |-> << <<64>> >>, sps |-> << <<66>> >>, pps |-> << <<68>> >>]
    ELSE [sps |-> << <<103>> >>, pps |-> << <<104>> >>]

\* the access units splitNalu cuts a packet into
AccessUnits(c) ==
    UNION { [1..n -> Nals(c)] : n \in 0..MaxNals }

HasType(c, nalus, t) == \E i \in 1..Len(nalus) : NalType(c, nalus[i]) = t

h264AddParamSetsAlways(frame, ps) ==
    IF ~HasType("H264", frame, H264_IDR) THEN frame
    ELSE ps.sps \o ps.pps \o frame

\* the frame is the sequence splitNalu cuts it into; mergeNalu puts the
\* same length prefixes back
h264AddParamSets(frame, ps) ==
    LET isIDR == HasType("H264", frame, H264_IDR)
        hasSPS == HasType("H264", frame, H264_SPS)
        hasPPS == HasType("H264", frame, H264_PPS)
    IN  IF ~isIDR THEN frame
        ELSE (IF ~hasSPS THEN ps.sps ELSE <<>>)
             \o (IF ~hasPPS THEN ps.pps ELSE <<>>)
             \o frame

h265AddParamSets(frame, ps) ==
    LET isIDR == \/ HasType("H265", frame, H265_IDR_W_RADL)
                 \/ HasType("H265", frame, H265_IDR_N_LP)
        hasVPS == HasType("H265", frame, H265_VPS)
        hasSPS == HasType("H265", frame, H265_SPS)
        hasPPS == HasType("H265", frame, H265_PPS)
    IN  IF ~isIDR THEN frame
        ELSE (IF ~hasVPS THEN ps.vps ELSE <<>>)
             \o (IF ~hasSPS THEN ps.sps ELSE <<>>)
             \o (IF ~hasPPS THEN ps.pps ELSE <<>>)
             \o frame

\* readFrame for a packet of the video stream: packet.data is replaced
\* before the packet is written to the video pipe
ReadFrame ==
    /\ ~app.done
    /\ app' = [app EXCEPT
                 !.done = TRUE,
                 !.ret = IF codec = "H264"
                         THEN h264AddParamSets(app.arg, Extra(codec))
                         ELSE IF codec = "H265"
                         THEN h265AddParamSets(app.arg, Extra(codec))
                         ELSE app.arg]
    /\ UNCHANGED <<codec, dmx, udpReady, encNonce, pk, task, handed, encCalls,
                   sentBefore, callsBefore, fed, reordered>>

InitDemux ==
    /\ \E c \in Codecs : InitRtpAt(c, 0)
    /\ app \in [arg : AccessUnits(codec), ret : {<<>>}, done : {FALSE}]
    /\ InitGwVars
    /\ InitNoClient

NextDemux == ReadFrame /\ UNCHANGED <<gwVars, clVars>>

SpecDemux == InitDemux /\ [][NextDemux]_vars

\* size.writeUInt32BE(nalu.length)
UInt32BE(n) ==
    << (n \div 16777216) % 256, (n \div 65536) % 256, (n \div 256) % 256,
       n % 256 >>

\* frame.readUInt32BE(offset)
readUInt32BE(frame, offset) ==
    frame[offset + 1] * 16777216 + frame[offset + 2] * 65536
        + frame[offset + 3] * 256 + frame[offset + 4]

\* frame.subarray(from, to) with 0-based bounds, cut at the end of the frame
Subarray(frame, from, to) == SubSeq(frame, from + 1, Min(to, Len(frame)))

RECURSIVE SplitFrom(_, _)
SplitFrom(frame, offset) ==
    IF offset >= Len(frame) THEN <<>>
    ELSE LET size == readUInt32BE(frame, offset)
         IN  << Subarray(frame, offset + 4, offset + 4 + size) >>
             \o SplitFrom(frame, offset + 4 + size)

splitNaluNoEmpty(frame) == SelectSeq(SplitFrom(frame, 0), LAMBDA n : n # <<>>)

\* splitNalu: the NAL units of a length-prefixed frame
splitNalu(frame) == SplitFrom(frame, 0)

RECURSIVE mergeNalu(_)
\* mergeNalu: each NAL unit behind its 4-byte length
mergeNalu(nalus) ==
    IF nalus = <<>> THEN <<>>
    ELSE UInt32BE(Len(nalus[1])) \o nalus[1] \o mergeNalu(Tail(nalus))

IsIDR(c, nalus) ==
    IF c = "H265"
    THEN HasType(c, nalus, H265_IDR_W_RADL) \/ HasType(c, nalus, H265_IDR_N_LP)
    ELSE HasType(c, nalus, H264_IDR)

AddParamSetsAlways(c, frame) ==
    LET nalus == splitNalu(frame)
        ps == Extra(c)
    IN  IF ~IsIDR(c, nalus) THEN frame
        ELSE mergeNalu((IF c = "H265" THEN ps.vps ELSE <<>>)
                       \o ps.sps \o ps.pps \o nalus)

\* h264AddParamSets / h265AddParamSets on the bytes of a frame: the frame
\* itself when it has no IDR slice, else the merged NAL units
AddParamSets(c, frame) ==
    LET nalus == splitNalu(frame)
    IN  IF ~IsIDR(c, nalus) THEN frame
        ELSE IF c = "H265" THEN mergeNalu(h265AddParamSets(nalus, Extra(c)))
        ELSE mergeNalu(h264AddParamSets(nalus, Extra(c)))

\* the injector applied to a frame, and once more to its own output
Inject ==
    /\ Len(app.ret) < 2
    /\ app' = [app EXCEPT
                 !.done = TRUE,
                 !.ret = IF app.ret = <<>>
                         THEN << AddParamSets(codec, app.arg) >>
                         ELSE Append(app.ret, AddParamSets(codec, app.ret[1]))]
    /\ UNCHANGED <<codec, dmx, udpReady, encNonce, pk, task, handed, encCalls,
                   sentBefore, callsBefore, fed, reordered>>

\* the well-formed length-prefixed frames of up to MaxNals NAL units
InitInject ==
    /\ \E c \in {"H264", "H265"} : InitRtpAt(c, 0)
    /\ \E au \in AccessUnits(codec) :
          app = [arg |-> mergeNalu(au), ret |-> <<>>, done |-> FALSE]
    /\ InitGwVars
    /\ InitNoClient

NextInject == Inject /\ UNCHANGED <<gwVars, clVars>>

SpecInject == InitInject /\ [][NextInject]_vars

\* the byte values frames and NAL payloads are made of
NaluBytes == {0, 1, 2}

RECURSIVE WellFormedFrom(_, _)
\* from offset on, the frame is whole entries of a 4-byte big-endian
\* length and a payload of that length
WellFormedFrom(frame, offset) ==
    \/ offset = Len(frame)
    \/ /\ offset + 4 <= Len(frame)
       /\ offset + 4 + readUInt32BE(frame, offset) <= Len(frame)
       /\ WellFormedFrom(frame, offset + 4 + readUInt32BE(frame, offset))

\* the well-formed frames of up to MaxFrameLen bytes
WellFormedFrames ==
    { f \in UNION { [1..n -> NaluBytes] : n \in 0..MaxFrameLen } :
        WellFormedFrom(f, 0) }

\* NAL payloads of up to two bytes, the empty one among them, and the
\* lists of up to MaxNals of them, the empty one among them
NaluPayloads == UNION { [1..n -> NaluBytes] : n \in 0..2 }

NaluLists == UNION { [1..n -> NaluPayloads] : n \in 0..MaxNals }

\* the value the next function is applied to: the input, then each result
NaluCurrent == IF app.ret = <<>> THEN app.arg.val ELSE app.ret[Len(app.ret)]

\* whether that value is a frame or a list of NAL units
NaluCurrentKind ==
    IF Len(app.ret) % 2 = 0 THEN app.arg.kind
    ELSE IF app.arg.kind = "frame" THEN "list" ELSE "frame"

OnlyApp ==
    UNCHANGED <<codec, dmx, udpReady, encNonce, pk, task, handed, encCalls,
                sentBefore, callsBefore, fed, reordered>>

\* splitNalu applied to a frame
SplitStep ==
    /\ Len(app.ret) < 2
    /\ NaluCurrentKind = "frame"
    /\ app' = [app EXCEPT !.done = TRUE,
                          !.ret = Append(@, splitNalu(NaluCurrent))]
    /\ OnlyApp

\* mergeNalu applied to a list of NAL units
MergeStep ==
    /\ Len(app.ret) < 2
    /\ NaluCurrentKind = "list"
    /\ app' = [app EXCEPT !.done = TRUE,
                          !.ret = Append(@, mergeNalu(NaluCurrent))]
    /\ OnlyApp

InitNalu ==
    /\ InitRtpAt("H264", 0)
    /\ \/ \E f \in WellFormedFrames :
             app = [arg |-> [kind |-> "frame", val |-> f], ret |-> <<>>,
                    done |-> FALSE]
       \/ \E l \in NaluLists :
             app = [arg |-> [kind |-> "list", val |-> l], ret |-> <<>>,
                    done |-> FALSE]
    /\ InitGwVars
    /\ InitNoClient

NextNalu == (SplitStep \/ MergeStep) /\ UNCHANGED <<gwVars, clVars>>

SpecNalu == InitNalu /\ [][NextNalu]_vars

\* ------------------------------------------------------------------------
\* Demuxer.ts: demux, its read loop and its output pipes
\* ------------------------------------------------------------------------

\* AV_CODEC_ID_H264, _H265, _VP8, _VP9, _AV1
allowedVideoCodec == {27, 173, 139, 167, 226}

\* AV_CODEC_ID_OPUS
allowedAudioCodec == {86076}

\* the codec of the first video track: absent, H.264, VP8, AV1 or MPEG-4
VideoTracks == { <<>>, <<27>>, <<139>>, <<226>>, <<12>> }

\* the codec of the first audio track: absent, Opus or AAC
AudioTracks == { <<>>, <<86076>>, <<86018>> }

\* what ff_read_frame_multi returns with limit 1: a status and the packet
\* read, if any, named by the track it belongs to
ReadStatuses == {"OK", "EAGAIN", "EOF", "EIO"}

ReadPackets == {"none", "video", "audio"}

\* status < 0 && status !== -EAGAIN
Fatal(status) == status \in {"EOF", "EIO"}

cleanupReleasesTwice(d, loopDefined) ==
    [d EXCEPT !.drainListeners = FALSE, !.device = FALSE, !.released = @ + 2]

\* cleanup: its first statement reads readFrame, a const declared below
\* the codec checks; called from there it throws (ReferenceError, or
\* TypeError from off() where const is compiled to var) before it has
\* released anything
cleanup(d, loopDefined) ==
    IF ~loopDefined THEN d
    ELSE [d EXCEPT !.drainListeners = FALSE, !.device = FALSE,
                   !.released = @ + 1]

\* the errors demux can reject with when it calls cleanup before readFrame
\* is initialised
CleanupErrors == {"ReferenceError", "TypeError"}

PipeWriteNoDrain(d, which) ==
    [d EXCEPT !.buf[which] = @ + 1, !.written[which] = @ + 1]

\* pipe.write: the packet is buffered; the call returns false, and the
\* pipe owes a "drain", when the buffer has reached the high-water mark
PipeWrite(d, which) ==
    LET full == d.buf[which] + 1 >= HighWaterMark
    IN  [d EXCEPT !.buf[which] = @ + 1, !.written[which] = @ + 1,
                  !.needDrain[which] = @ \/ full,
                  !.blocked = IF full THEN 1 ELSE @]

\* the demuxer's steps leave the rest of the engine alone
OnlyDemux ==
    UNCHANGED <<codec, app, udpReady, encNonce, pk, task, handed, encCalls,
                sentBefore, callsBefore, fed, reordered, gwVars, clVars>>

\* demux up to its return: reader device and input listeners, the codec
\* checks, the first readFrame call up to its first await
Demux(vtrack, atrack) ==
    /\ dmx.pc = "none"
    /\ OnlyDemux
    /\ LET d == [dmx EXCEPT !.device = TRUE]
       IN  IF vtrack # <<>> /\ vtrack[1] \notin allowedVideoCodec
           THEN \E err \in CleanupErrors :
                   dmx' = [cleanup(d, FALSE) EXCEPT !.pc = "failed",
                                                    !.error = <<err>>]
           ELSE IF atrack # <<>> /\ atrack[1] \notin allowedAudioCodec
           THEN \E err \in CleanupErrors :
                   dmx' = [cleanup(d, FALSE) EXCEPT !.pc = "failed",
                                                    !.error = <<err>>]
           ELSE dmx' = [d EXCEPT !.pc = "running",
                                 !.video = vtrack # <<>>,
                                 !.audio = atrack # <<>>,
                                 !.drainListeners = TRUE,
                                 !.reading = TRUE]

RECURSIVE WritePackets(_, _, _)
\* for (const packet of packetStreams[0] ?? []): a packet of a selected
\* track is counted as returned (its number in its track is its identity)
\* and 'resume &&= pipe.write(packet)' runs, which calls write only while
\* resume is still true; packets of other tracks are passed over
WritePackets(d, packets, resume) ==
    IF packets = <<>> THEN [d |-> d, resume |-> resume]
    ELSE LET which == Head(packets)
             selected == IF which = "video" THEN d.video ELSE d.audio
             d1 == [d EXCEPT !.returned[which] = @ + 1]
             d2 == [PipeWrite(d1, which) EXCEPT
                      !.put[which] = Append(@, d1.returned[which])]
         IN  IF ~selected THEN WritePackets(d, Tail(packets), resume)
             ELSE IF ~resume THEN WritePackets(d1, Tail(packets), FALSE)
             ELSE WritePackets(d2, Tail(packets),
                               d2.buf[which] < HighWaterMark)

\* one turn of readFrame's loop, from the return of ff_read_frame_multi
\* with the packets it read to the next await or to the end of the call
ReadPacketsTurn(status, packets) ==
    /\ dmx.pc = "running"
    /\ dmx.reading
    /\ OnlyDemux
    /\ dmx.reads >= MaxReads => Fatal(status)
    /\ LET d0 == [dmx EXCEPT !.reads = @ + 1, !.last = status,
                             !.paused = FALSE,
                             !.readsAfterEnd = IF dmx.ended # {} THEN 1 ELSE @]
           w == WritePackets(d0, packets, TRUE)
       IN  dmx' = IF Fatal(status)
                  THEN [cleanup(w.d, TRUE) EXCEPT !.ended = Ssrcs,
                                                  !.reading = FALSE]
                  ELSE IF ~w.resume
                  THEN [w.d EXCEPT !.paused = TRUE, !.reading = FALSE]
                  ELSE w.d

\* a turn whose read returned at most one packet
ReadTurn(status, packet) ==
    ReadPacketsTurn(status, IF packet = "none" THEN <<>> ELSE <<packet>>)

\* the sink piped to an output takes a packet; an output that empties
\* while it owes a "drain" emits it, and readFrame, if still listening,
\* starts unless a call is in progress
Take(which) ==
    /\ dmx.pc = "running"
    /\ dmx.buf[which] > 0
    /\ OnlyDemux
    /\ LET d1 == [dmx EXCEPT !.buf[which] = @ - 1, !.taken[which] = @ + 1]
           drain == d1.buf[which] = 0 /\ d1.needDrain[which]
       IN  dmx' = IF ~drain THEN d1
                  ELSE [d1 EXCEPT !.needDrain[which] = FALSE,
                                  !.reading = @ \/ d1.drainListeners]

InitDemuxRun ==
    /\ InitRtpAt("H264", 0)
    /\ app = NoApp
    /\ InitGwVars
    /\ InitNoClient

NextDemuxRun ==
    \/ \E vtrack \in VideoTracks, atrack \in AudioTracks :
          Demux(vtrack, atrack)
    \/ \E status \in ReadStatuses, packet \in ReadPackets :
          ReadTurn(status, packet)
    \/ \E which \in Ssrcs : Take(which)

\* a read that was requested returns, and a sink that is piped to an
\* output with packets in it takes one
FairDemuxRun ==
    /\ WF_vars(\E status \in ReadStatuses, packet \in ReadPackets :
                  ReadTurn(status, packet))
    /\ \A which \in Ssrcs : WF_vars(Take(which))

SpecDemuxRun == InitDemuxRun /\ [][NextDemuxRun]_vars /\ FairDemuxRun

\* what one read can return: up to MaxBatch packets of the two tracks
Batches == UNION { [1..n -> Ssrcs] : n \in 0..MaxBatch }

\* a container with a video and an audio track whose reads return any
\* number of packets
NextDemuxBatch ==
    \/ Demux(<<27>>, <<86076>>)
    \/ \E status \in ReadStatuses, packets \in Batches :
          ReadPacketsTurn(status, packets)
    \/ \E which \in Ssrcs : Take(which)

SpecDemuxBatch == InitDemuxRun /\ [][NextDemuxBatch]_vars

\* ------------------------------------------------------------------------
\* StreamerClient.joinVoice / createStream / stopStream / leaveVoice
\* (StreamerClient.ts), UdpTransport.discoverIP / stop (UdpTransport.ts)
\* and playStream (StreamPlayer.ts), around one VoiceGateway
\* ------------------------------------------------------------------------

\* WebSocket.send throws on a socket that is still connecting; on a closing
\* or closed socket it drops the data and returns
Throws(sent) == sent # <<>> /\ sent[1].state = "connecting"

SelectModeIgnoreForce(g) ==
    IF AES256 \in g.webRtcParams[1] THEN AES256 ELSE XCHACHA20

\* selectProtocol: the mode it asks for
SelectMode(g) ==
    IF AES256 \in g.webRtcParams[1] /\ ~g.forceChacha20 THEN AES256
    ELSE XCHACHA20

\* setSpeaking(speaking, true) and setVideoAttributes(enabled, attr): the
\* opcode and the fields that tell the forms apart
SpeakingPayload(speaking) == [op |-> "SPEAKING", speaking |-> IF speaking THEN 2 ELSE 0]

VideoPayload(enabled) == [op |-> "VIDEO", active |-> enabled]

\* StreamerClient.setSpeaking followed by StreamerClient.signalVideo, each
\* this._streamGateway?.<call>: skipped when the reference is null, and the
\* second not reached when the first throws. Gives the signals written and
\* whether a call threw.
Signal(g, ref, on) ==
    IF ~ref THEN [signals |-> <<>>, threw |-> FALSE]
    ELSE IF g.webRtcParams = <<>> THEN [signals |-> <<>>, threw |-> TRUE]
    ELSE IF Throws(SendOpcode(g, "SPEAKING", SpeakingPayload(on)))
    THEN [signals |-> <<>>, threw |-> TRUE]
    ELSE IF g.ws = 0 THEN [signals |-> <<>>, threw |-> FALSE]
    ELSE [signals |-> IF on THEN <<VideoPayload(TRUE), SpeakingPayload(TRUE)>>
                      ELSE <<SpeakingPayload(FALSE), VideoPayload(FALSE)>>,
          threw |-> FALSE]

\* cleanup of playStream's promise executor
Cleanup(g, ref) == Signal(g, ref, FALSE)

\* a step of the promise executor that sets finished, runs cleanup and
\* then resolves; resolve is not reached when cleanup throws
Finish(p, g, ref) ==
    LET c == Cleanup(g, ref)
    IN  [p EXCEPT !.finished = TRUE,
                  !.signals = @ \o c.signals,
                  !.outcome = IF c.threw THEN @ ELSE "resolved"]

\* checkDone
CheckDone(p, g, ref) ==
    IF p.videoDone /\ p.audioDone /\ ~p.finished THEN Finish(p, g, ref) ELSE p

\* playStream from the return of createStream to the return of the promise
\* executor: signalVideo and setSpeaking, the two sinks, the listeners
StartPiping(p, g, ref) ==
    LET s == Signal(g, ref, TRUE)
    IN  IF s.threw THEN [p EXCEPT !.pc = "failed", !.outcome = "rejected"]
        ELSE [p EXCEPT !.pc = "piping", !.signals = s.signals,
                       !.videoDone = ~p.hasVideo, !.audioDone = ~p.hasAudio,
                       !.sinks = "open", !.demux = "open", !.poll = TRUE]

SetupPacketizersSkipped(u) == u

\* setupPacketizers
SetupPacketizers(u) == [u EXCEPT !.packetizers = TRUE]

Log(c, names) == [c EXCEPT !.steps = @ \o names]

\* the head of the "ready" handler: new UdpTransport, discoverIP sends its
\* request and awaits the reply
OnReady ==
    /\ cl' = Log([cl EXCEPT !.pc = "discovering"], <<"READY", "discoverIP">>)
    /\ udp' = [NoUdp EXCEPT !.made = TRUE]
    /\ udpReady' = FALSE
    /\ play' = play

\* the "ready" handler after selectProtocol's promise resolved: the
\* transport takes the gateway's encryptor, createStream sets up the
\* packetizers, the call resolves; playStream, the caller of createStream,
\* goes on from there. g is the gateway after the ack was handled.
OnProtocolAck(g) ==
    /\ udpReady' = udpReady
    /\ IF ~cl.gateway
       THEN /\ cl' = [cl EXCEPT !.pc = "rejected"]
            /\ play' = [play EXCEPT !.outcome = "rejected"]
            /\ udp' = udp
       ELSE LET u1 == [udp EXCEPT !.encryptor = g.encryptor]
                c1 == Log(cl, <<"SELECT_PROTOCOL_ACK", "encryptor">>)
            IN  IF cl.kind = "stream"
                THEN /\ udp' = SetupPacketizers(u1)
                     /\ cl' = Log([c1 EXCEPT !.pc = "resolved"],
                                  IF udp'.packetizers
                                  THEN <<"packetizers", "resolved">>
                                  ELSE <<"resolved">>)
                     /\ play' = StartPiping(play, g, cl.gateway)
                ELSE /\ udp' = u1
                     /\ cl' = Log([c1 EXCEPT !.pc = "resolved"], <<"resolved">>)
                     /\ play' = play

\* a message on a WebSocket, with the listeners the call has on the gateway
ClientMessage(s, op, d) ==
    /\ WsMessage(s, op, d, <<>>)
    /\ IF op = "READY" /\ cl.pc = "waitReady" THEN OnReady
       ELSE IF op = "SELECT_PROTOCOL_ACK" /\ cl.pc = "selecting"
       THEN OnProtocolAck(gw')
       ELSE UNCHANGED <<clVars, udpReady>>
    /\ UNCHANGED pkVars

\* setSession and setTokens as the "raw" listeners call them
ClientSetSession ==
    /\ cl.listeners
    /\ SetSession("session")
    /\ UNCHANGED <<rtpVars, clVars>>

ClientSetTokens ==
    /\ cl.listeners
    /\ SetTokens("endpoint", "token")
    /\ UNCHANGED <<rtpVars, clVars>>

Reject ==
    /\ cl' = [cl EXCEPT !.pc = "rejected"]
    /\ play' = [play EXCEPT !.outcome = "rejected"]

\* the discovery reply arrives: discoverIP resolves and the handler calls
\* selectProtocol, which throws without READY parameters or when the
\* WebSocket is connecting, and else awaits "protocol_ack"
DiscoveryReply ==
    /\ cl.pc = "discovering"
    /\ ~udp.closed
    /\ udpReady' = TRUE
    /\ IF ~cl.gateway \/ gw.webRtcParams = <<>>
       THEN Reject /\ ev' = [NoEvent EXCEPT !.kind = "selectProtocol"]
       ELSE LET sent == SendOpcode(gw, "SELECT_PROTOCOL", [mode |-> SelectMode(gw)])
            IN  /\ ev' = [NoEvent EXCEPT !.kind = "selectProtocol", !.sent = sent]
                /\ IF Throws(sent) THEN Reject
                   ELSE /\ cl' = Log([cl EXCEPT !.pc = "selecting"],
                                     <<"discovered", "SELECT_PROTOCOL">>)
                        /\ play' = play
    /\ UNCHANGED <<gw, origin, lastSeq, udp, pkVars>>

\* discoverIP rejects: its 10 s timer fires or the send fails
DiscoveryFail ==
    /\ cl.pc = "discovering"
    /\ Reject
    /\ UNCHANGED <<rtpVars, gwVars, udp>>

\* the cancellation signal fires; its listener is registered once
\* playStream pipes
Abort ==
    /\ play.pc = "piping"
    /\ ~play.aborted
    /\ play' = IF play.finished THEN [play EXCEPT !.aborted = TRUE]
               ELSE Finish([play EXCEPT !.aborted = TRUE, !.cancelled = TRUE,
                                        !.sinks = "destroyed",
                                        !.demux = "destroyed"],
                           gw, cl.gateway)
    /\ UNCHANGED <<rtpVars, gwVars, cl, udp>>

\* the "finish" or the "error" listener of a sink
SinkDone(which) ==
    /\ play.pc = "piping"
    /\ play.sinks = "open"
    /\ \/ which = "video" /\ play.hasVideo /\ ~play.videoDone
          /\ play' = CheckDone([play EXCEPT !.videoDone = TRUE], gw, cl.gateway)
       \/ which = "audio" /\ play.hasAudio /\ ~play.audioDone
          /\ play' = CheckDone([play EXCEPT !.audioDone = TRUE], gw, cl.gateway)
    /\ UNCHANGED <<rtpVars, gwVars, cl, udp>>

\* a demuxer output stream has delivered its last packet
DemuxEnd(which) ==
    /\ play.pc = "piping"
    /\ play.demux = "open"
    /\ \/ which = "video" /\ play.hasVideo
       \/ which = "audio" /\ play.hasAudio
    /\ which \notin play.ended
    /\ play' = [play EXCEPT !.ended = @ \cup {which}]
    /\ UNCHANGED <<rtpVars, gwVars, cl, udp>>

\* the 2 s safety interval
SafetyCheck ==
    /\ play.pc = "piping"
    /\ play.poll
    /\ play' = IF play.finished THEN [play EXCEPT !.poll = FALSE]
               ELSE IF play.ended = {"video", "audio"}
               THEN Finish([play EXCEPT !.poll = FALSE], gw, cl.gateway)
               ELSE play
    /\ play' # play
    /\ UNCHANGED <<rtpVars, gwVars, cl, udp>>

\* stopStream and leaveVoice on the connection of the run: the gateway is
\* stopped and dropped, the transport stopped and dropped, the "raw"
\* listeners removed
StopConnection ==
    /\ cl.gateway
    /\ Stop
    /\ cl' = [cl EXCEPT !.gateway = FALSE, !.listeners = FALSE]
    /\ udp' = UdpStop(udp)
    /\ udpReady' = IF udp.made THEN FALSE ELSE udpReady
    /\ UNCHANGED <<play, pkVars>>

StopStream == cl.kind = "stream" /\ StopConnection

LeaveVoice == cl.kind = "voice" /\ StopConnection

\* joinVoice or createStream has been called and has sent its request; a
\* createStream call is the one of playStream, whose input has video,
\* audio or both
InitClient ==
    /\ InitGwVars
    /\ app = NoApp
    /\ udpReady = FALSE
    /\ InitPacketizers("H264", 0)
    /\ udp = NoUdp
    /\ \E kind \in {"voice", "stream"} :
          /\ cl = [NoClient EXCEPT !.kind = kind, !.pc = "waitReady",
                                   !.gateway = TRUE, !.listeners = TRUE]
          /\ \/ kind = "voice" /\ play = NoPlay
             \/ /\ kind = "stream"
                /\ \E v, a \in BOOLEAN :
                      /\ v \/ a
                      /\ play = [NoPlay EXCEPT !.pc = "connecting",
                                               !.hasVideo = v, !.hasAudio = a]

NextClient ==
    \/ ClientSetSession
    \/ ClientSetTokens
    \/ \E s \in 1..MaxSockets : WsOpen(s) /\ UNCHANGED <<rtpVars, clVars>>
    \/ \E s \in 1..MaxSockets : \E code \in ServerCloseCodes \cup LocalCloseCodes :
          WsClose(s, code) /\ UNCHANGED <<rtpVars, clVars>>
    \/ \E s \in 1..MaxSockets : \E op \in InboundOps :
          \E d \in Payloads(op) : ClientMessage(s, op, d)
    \/ HeartbeatTick /\ UNCHANGED <<rtpVars, clVars>>
    \/ DiscoveryReply
    \/ DiscoveryFail
    \/ Abort
    \/ \E which \in {"video", "audio"} : SinkDone(which)
    \/ \E which \in {"video", "audio"} : DemuxEnd(which)
    \/ SafetyCheck
    \/ StopStream
    \/ LeaveVoice

SpecClient == InitClient /\ [][NextClient]_vars

\* ------------------------------------------------------------------------
\* playStream from its call on, with a cancellation signal that may fire
\* at any time (StreamPlayer.ts)
\* ------------------------------------------------------------------------

\* await demux(input, cancelSignal) returns streams for the tracks found
\* (demux never reads its cancelSignal parameter) and playStream calls
\* createStream, which sends its request and waits for READY
DemuxResolved ==
    /\ play.pc = "demuxing"
    /\ \E v, a \in BOOLEAN :
          /\ v \/ a
          /\ play' = [play EXCEPT !.pc = "connecting", !.hasVideo = v,
                                  !.hasAudio = a]
    /\ cl' = [cl EXCEPT !.pc = "waitReady", !.gateway = TRUE,
                        !.listeners = TRUE]
    /\ UNCHANGED <<rtpVars, gwVars, udp>>

\* the cancellation signal fires while playStream awaits demux or
\* createStream: the "abort" event is dispatched with no listener on it.
\* addEventListener("abort", ...) in the promise executor comes after the
\* event and its listener is never called (Abort requires ~play.aborted)
AbortEarly ==
    /\ play.pc \in {"demuxing", "connecting"}
    /\ ~play.aborted
    /\ play' = [play EXCEPT !.aborted = TRUE]
    /\ UNCHANGED <<rtpVars, gwVars, cl, udp>>

\* playStream has just been called
InitCancel ==
    /\ InitGwVars
    /\ app = NoApp
    /\ udpReady = FALSE
    /\ InitPacketizers("H264", 0)
    /\ udp = NoUdp
    /\ cl = [NoClient EXCEPT !.kind = "stream"]
    /\ play = [NoPlay EXCEPT !.pc = "demuxing"]

NextCancel ==
    \/ DemuxResolved
    \/ AbortEarly
    \/ ClientSetSession
    \/ ClientSetTokens
    \/ \E s \in 1..MaxSockets : WsOpen(s) /\ UNCHANGED <<rtpVars, clVars>>
    \/ \E s \in 1..MaxSockets : \E op \in InboundOps :
          \E d \in Payloads(op) : ClientMessage(s, op, d)
    \/ DiscoveryReply
    \/ Abort
    \/ \E which \in {"video", "audio"} : SinkDone(which)
    \/ \E which \in {"video", "audio"} : DemuxEnd(which)
    \/ SafetyCheck

SpecCancel == InitCancel /\ [][NextCancel]_vars

\* ------------------------------------------------------------------------
\* MediaStream.ts: _write as the Writable runs it while playStream pipes,
\* one write per sink at a time, and the sinks destroyed by cancellation
\* ------------------------------------------------------------------------

\* the Writable calls _write with the next packet of its source: up to the
\* first await, which is the pacing timer when it asks for more than 1 ms
\* and else the sendVideoFrame / sendAudioFrame call
WriteBegin(which, frame, frametime) ==
    /\ play.pc = "piping"
    /\ play.sinks = "open"
    /\ play.demux = "open"
    /\ IF which = "video" THEN play.hasVideo ELSE play.hasAudio
    /\ play.writing[which] = "idle"
    /\ fed["audio"] + fed["video"] < MaxFrames
    /\ \E pts \in PtsValues, elapsed \in ElapsedValues :
          IF calcSleepMs(fed[which] = 0, pts, elapsed) > 1000
          THEN /\ play' = [play EXCEPT !.writing[which] = "sleeping"]
               /\ UNCHANGED rtpVars
          ELSE /\ play' = [play EXCEPT !.writing[which] = "sending"]
               /\ StartFrame(which, frame, frametime)
    /\ UNCHANGED <<gwVars, cl, udp>>

\* the pacing timer fires: _write goes on to sendVideoFrame /
\* sendAudioFrame; nothing between the two awaits looks at the stream
WriteWake(which, frame, frametime) ==
    /\ play.writing[which] = "sleeping"
    /\ play' = [play EXCEPT !.writing[which] = "sending"]
    /\ StartFrame(which, frame, frametime)
    /\ UNCHANGED <<gwVars, cl, udp>>

\* sendFrame has returned: callback()
WriteEnd(which) ==
    /\ play.writing[which] = "sending"
    /\ task[which].pc = "idle"
    /\ play' = [play EXCEPT !.writing[which] = "idle"]
    /\ UNCHANGED <<rtpVars, gwVars, cl, udp>>

\* playStream pipes into its sinks; the frame time of a sink is fixed
NextDestroy ==
    \/ \E frame \in SrVideoFrames : WriteBegin("video", frame, 20)
    \/ \E frame \in AudioFrames : WriteBegin("audio", frame, 20)
    \/ \E frame \in SrVideoFrames : WriteWake("video", frame, 20)
    \/ \E frame \in AudioFrames : WriteWake("audio", frame, 20)
    \/ \E which \in Ssrcs : WriteEnd(which)
    \/ \E p \in Ssrcs : EncryptDone(p, 1) /\ UNCHANGED <<gwVars, clVars>>
    \/ \E p \in Ssrcs : SendRound(p) /\ UNCHANGED <<gwVars, clVars>>
    \/ Abort

\* ------------------------------------------------------------------------
\* playStream while it pipes (StreamPlayer.ts), with a sink whose write
\* fails (MediaStream.ts)
\* ------------------------------------------------------------------------

\* _write: sendVideoFrame or sendAudioFrame throws, the catch passes the
\* error to the callback, the Writable emits "error" and the listener of
\* playStream runs: it marks the stream done and calls checkDone
SinkError(which) ==
    /\ play.pc = "piping"
    /\ play.sinks = "open"
    /\ which \notin play.errored
    /\ \/ which = "video" /\ play.hasVideo /\ ~play.videoDone
          /\ play' = CheckDone([play EXCEPT !.videoDone = TRUE,
                                            !.errored = @ \cup {which}],
                               gw, cl.gateway)
       \/ which = "audio" /\ play.hasAudio /\ ~play.audioDone
          /\ play' = CheckDone([play EXCEPT !.audioDone = TRUE,
                                            !.errored = @ \cup {which}],
                               gw, cl.gateway)
    /\ UNCHANGED <<rtpVars, gwVars, cl, udp>>

\* the "finish" listener of a sink: the Writable finishes once its source
\* has ended and its last write has completed
SinkFinish(which) ==
    /\ which \in play.ended
    /\ which \notin play.errored
    /\ SinkDone(which)

\* a demuxer output that is still piped into its sink delivers its last
\* packet; a sink that failed was destroyed and reads no more
PipedDemuxEnd(which) ==
    /\ which \notin play.errored
    /\ DemuxEnd(which)

\* the gateway of a stream connection after its handshake
ConnectedGateway ==
    [NewGateway EXCEPT !.hasSession = TRUE, !.hasToken = TRUE,
                       !.started = TRUE, !.ws = 1, !.sock = <<"open">>,
                       !.sessionId = "session", !.server = "endpoint",
                       !.token = "token", !.heartbeat = 13750,
                       !.timers = <<13750>>,
                       !.webRtcParams = << {AES256, XCHACHA20} >>,
                       !.encryptor = "AES256Encryptor"]

\* playStream has connected, signalled and entered its promise executor
InitPlay ==
    /\ gw = ConnectedGateway
    /\ origin = <<"-">>
    /\ lastSeq = <<>>
    /\ ev = NoEvent
    /\ app = NoApp
    /\ udpReady = TRUE
    /\ InitPacketizers("H264", 0)
    /\ udp = [NoUdp EXCEPT !.made = TRUE, !.encryptor = "AES256Encryptor",
                           !.packetizers = TRUE]
    /\ cl = [NoClient EXCEPT !.kind = "stream", !.pc = "resolved",
                             !.gateway = TRUE, !.listeners = TRUE]
    /\ \E v, a \in BOOLEAN :
          /\ v \/ a
          /\ play = StartPiping([NoPlay EXCEPT !.pc = "connecting",
                                               !.hasVideo = v, !.hasAudio = a],
                                gw, TRUE)

NextPlay ==
    \/ \E which \in {"video", "audio"} : SinkError(which)
    \/ \E which \in {"video", "audio"} : SinkFinish(which)
    \/ \E which \in {"video", "audio"} : PipedDemuxEnd(which)
    \/ SafetyCheck
    \/ Abort
    \/ HeartbeatTick /\ UNCHANGED <<rtpVars, clVars>>

\* the timers and the stream events of the runtime fire; when the input
\* ends and whether the caller cancels is up to the caller
FairPlay ==
    /\ WF_vars(SafetyCheck)
    /\ WF_vars(HeartbeatTick /\ UNCHANGED <<rtpVars, clVars>>)
    /\ \A which \in {"video", "audio"} : WF_vars(SinkFinish(which))

SpecPlay == InitPlay /\ [][NextPlay]_vars /\ FairPlay

SpecDestroy == InitPlay /\ [][NextDestroy]_vars

\* ------------------------------------------------------------------------
\* VoiceGateway.selectProtocol and _handleProtocolAck, for either setting
\* of forceChacha20 and any list of modes in READY
\* ------------------------------------------------------------------------

\* the modes lists a READY can carry
OfferedModes == SUBSET {AES256, XCHACHA20}

\* selectProtocol: throws without READY parameters, else writes
\* SELECT_PROTOCOL and waits for "protocol_ack"
SelectProtocol ==
    /\ ev' = IF gw.webRtcParams = <<>>
             THEN [NoEvent EXCEPT !.kind = "selectProtocol", !.op = "threw"]
             ELSE [NoEvent EXCEPT !.kind = "selectProtocol",
                      !.sent = SendOpcode(gw, "SELECT_PROTOCOL",
                                          [mode |-> SelectMode(gw)])]
    /\ UNCHANGED <<gw, origin, lastSeq>>

\* READY or SELECT_PROTOCOL_ACK arrives; app keeps the d of the ack and the
\* encryptor the gateway holds when "protocol_ack" is emitted
ProtocolMessage(s, op, d) ==
    /\ WsMessage(s, op, d, <<>>)
    /\ app' = IF op = "SELECT_PROTOCOL_ACK"
              THEN [arg |-> <<d>>, ret |-> <<gw'.encryptor>>, done |-> TRUE]
              ELSE app

\* a gateway constructed with either value of forceChacha20
InitProtocol ==
    /\ \E force \in BOOLEAN : gw = [NewGateway EXCEPT !.forceChacha20 = force]
    /\ origin = <<>>
    /\ lastSeq = <<>>
    /\ ev = NoEvent
    /\ app = NoApp
    /\ InitRtpAt("H264", 0)
    /\ InitNoClient

NextProtocol ==
    \/ SetSession("session") /\ UNCHANGED <<rtpVars, clVars>>
    \/ SetTokens("endpoint", "token") /\ UNCHANGED <<rtpVars, clVars>>
    \/ \E s \in 1..MaxSockets : WsOpen(s) /\ UNCHANGED <<rtpVars, clVars>>
    \/ \E s \in 1..MaxSockets : \E code \in ServerCloseCodes :
          WsClose(s, code) /\ UNCHANGED <<rtpVars, clVars>>
    \/ \E s \in 1..MaxSockets :
          \/ \E d \in OfferedModes :
                /\ ProtocolMessage(s, "READY", d)
                /\ UNCHANGED <<codec, dmx, udpReady, encNonce, pk, task, handed,
                               encCalls, sentBefore, callsBefore, fed,
                               reordered, clVars>>
          \/ \E d \in {AES256, XCHACHA20} :
                /\ ProtocolMessage(s, "SELECT_PROTOCOL_ACK", d)
                /\ UNCHANGED <<codec, dmx, udpReady, encNonce, pk, task, handed,
                               encCalls, sentBefore, callsBefore, fed,
                               reordered, clVars>>
    \/ SelectProtocol /\ UNCHANGED <<rtpVars, clVars>>

SpecProtocol == InitProtocol /\ [][NextProtocol]_vars

\* ------------------------------------------------------------------------
\* Properties of the packetizers and the encryptor (SpecRtp)
\* ------------------------------------------------------------------------

\* the RTP packets among the datagrams handed to the transport, in order
RECURSIVE RtpOf(_)
RtpOf(grams) ==
    IF grams = <<>> THEN <<>>
    ELSE (IF Head(grams).kind = "rtp" THEN <<Head(grams)>> ELSE <<>>)
         \o RtpOf(Tail(grams))

Range(f) == {f[i] : i \in DOMAIN f}

UsedNonces == Range(encCalls["audio"]) \cup Range(encCalls["video"])

CallsMade == Len(encCalls["audio"]) + Len(encCalls["video"])

\* C1: for each SSRC the k-th RTP packet handed to the UDP transport (k from
\* 0, counting the packets of the session so far) carries sequence number
\* k mod 2^16: nothing is skipped or reused, across the wrap too.
C1_SequenceIsPacketIndex ==
    \A p \in Ssrcs :
        LET r == RtpOf(handed[p])
        IN  \A i \in 1..Len(r) :
                r[i].seq = (sentBefore[p] + (i - 1)) % MAX_INT16

\* C1 witness: an SSRC whose handed packets run through the wrap
\* ..., 65535, 0, ...
C1_Witness ==
    \E p \in Ssrcs :
        LET r == RtpOf(handed[p])
        IN  \E i \in 1..(Len(r) - 1) :
                r[i].seq = MAX_INT16 - 1 /\ r[i + 1].seq = 0

\* C2 as stated: over the encrypt calls of one encryptor the nonce strictly
\* increases and no nonce value is repeated.
C2_NonceStrictlyIncreases ==
    /\ \A p \in Ssrcs : \A i, j \in 1..Len(encCalls[p]) :
          i < j => U32Less(encCalls[p][i], encCalls[p][j])
    /\ Cardinality(UsedNonces) = CallsMade

\* C2 amended: the counter advances by one modulo 2^32 per encrypt call (it
\* wraps from 2^32 - 1 to 0), so the nonces of the calls made (fewer than
\* 2^32) are pairwise different and the counter holds a value not used yet.
C2_NoncesDistinctModWrap ==
    /\ Cardinality(UsedNonces) = CallsMade
    /\ encNonce \notin UsedNonces
    /\ \A p \in Ssrcs : \A i \in 1..(Len(encCalls[p]) - 1) :
          \/ U32Less(encCalls[p][i], encCalls[p][i + 1])
          \/ /\ U32Less(encCalls[p][i + 1], encCalls[p][i])
             /\ encCalls[p][i + 1][1] = 0
             /\ encCalls[p][i][1] = MAX_INT16 - 1

\* C2 witness: the counter has wrapped: nonces 2^32 - 1 and 0 were both given
\* out, and a Sender Report was encrypted with the same encryptor
C2_Witness ==
    /\ U32(MAX_INT16 - 1, MAX_INT16 - 1) \in UsedNonces
    /\ U32Zero \in UsedNonces
    /\ \E p \in Ssrcs : \E i \in 1..Len(handed[p]) : handed[p][i].kind = "sr"

\* C9: within one SSRC the RTP packets reach the transport in sequence order:
\* each handed packet follows its predecessor by one, and every packet still
\* being encrypted comes after all that were handed, whatever the order in
\* which the encryptions complete.
C9_HandedInSequenceOrder ==
    \A p \in Ssrcs :
        LET r == RtpOf(handed[p])
            q == IF task[p].pc = "enc" THEN task[p].pending ELSE <<>>
            all == r \o q
        IN  \A i \in 1..(Len(all) - 1) :
                all[i + 1].seq = (all[i].seq + 1) % MAX_INT16

\* C9 witness: a fragmented video frame whose encryptions completed out of
\* index order has been sent completely
C9_Witness ==
    /\ reordered["video"]
    /\ fed["video"] = 1
    /\ task["video"].pc = "idle"
    /\ Len(RtpOf(handed["video"])) >= 2

\* C10 as stated: each packetizer has its own nonce counter, so the nonces of
\* one packetizer's successive encrypt calls follow each other whatever the
\* other packetizer does.
C10_OwnCounterPerPacketizer ==
    \A p \in Ssrcs : \A i \in 1..(Len(encCalls[p]) - 1) :
        encCalls[p][i + 1] = U32Add(encCalls[p][i], 1)

\* C10 amended: both packetizers use the transport's one encryptor: every
\* encrypt call of either advances the same counter, and the nonces given to
\* audio and to video never coincide.
C10_SharedCounter ==
    /\ encNonce = U32Add(callsBefore, CallsMade)
    /\ Range(encCalls["audio"]) \cap Range(encCalls["video"]) = {}

\* C10 witness: an audio call took a nonce between two video calls
C10_Witness ==
    \E i \in 1..(Len(encCalls["video"]) - 1) :
        \E j \in 1..Len(encCalls["audio"]) :
            /\ encCalls["audio"][j] = U32Add(encCalls["video"][i], 1)
            /\ encCalls["video"][i + 1] = U32Add(encCalls["video"][i], 2)


\* ------------------------------------------------------------------------
\* VoiceGateway connection management
\* ------------------------------------------------------------------------

\* the WebSockets of the gateway that are connecting or open
ActiveSockets == {s \in 1..Len(gw.sock) : gw.sock[s] \in {"connecting", "open"}}

\* C3: a WebSocket is opened only once session and tokens are both set and
\* no earlier WebSocket of the gateway is still connecting or open, so at
\* most one WebSocket of a gateway is active at any time
C3_AtMostOneActiveSocket ==
    /\ Len(gw.sock) > 0 => gw.hasSession /\ gw.hasToken
    /\ Cardinality(ActiveSockets) <= 1

\* C4: a close with code 4015 or below 4000 while the gateway is started
\* sets resuming and opens exactly one new WebSocket; a close with any other
\* code, or of a socket that stop() closed, opens none
C4_ReconnectOnlyOnResumableClose ==
    ev.kind = "close" =>
        IF CanResume(ev.code) /\ ev.wasStarted /\ ~ev.byStop
        THEN gw.resuming /\ ev.opened = 1
        ELSE ev.opened = 0

\* the sequence number last received, -1 before any
LastReceived == IF lastSeq = <<>> THEN -1 ELSE lastSeq[1]

\* C5: every open sends exactly one of IDENTIFY and RESUME on the socket
\* that opened, RESUME exactly when a resumable close opened that socket;
\* the RESUME carries server_id, session_id, token and the last received
\* sequence number; RESUMED leaves the gateway started with the parameters
\* and encryptor it had
C5_IdentifyOrResumeOnOpen ==
    /\ ev.kind = "open" =>
          /\ Len(ev.sent) = 1
          /\ ev.sent[1].to = ev.sock
          /\ ev.sent[1].op = (IF ev.op = "resume" THEN "RESUME" ELSE "IDENTIFY")
          /\ ev.sent[1].op = "RESUME" =>
                ev.sent[1].d = [server_id |-> ServerId,
                                session_id |-> gw.sessionId,
                                token |-> gw.token,
                                seq_ack |-> LastReceived]
    /\ ev.kind = "message" /\ ev.op = "RESUMED" => gw.started

\* ------------------------------------------------------------------------
\* Connection handshake and playStream cancellation
\* ------------------------------------------------------------------------

\* the place of a handshake step in the call's log, 0 when it has not occurred
StepIndex(name) ==
    IF \E i \in 1..Len(cl.steps) : cl.steps[i] = name
    THEN CHOOSE i \in 1..Len(cl.steps) : cl.steps[i] = name
    ELSE 0

Before(a, b) ==
    StepIndex(b) # 0 => StepIndex(a) # 0 /\ StepIndex(a) < StepIndex(b)

HandshakeOrder ==
    /\ Before("READY", "discoverIP")
    /\ Before("discoverIP", "discovered")
    /\ Before("discovered", "SELECT_PROTOCOL")
    /\ Before("SELECT_PROTOCOL", "SELECT_PROTOCOL_ACK")
    /\ Before("SELECT_PROTOCOL_ACK", "encryptor")
    /\ Before("encryptor", "packetizers")
    /\ udp.encryptor # "null" => StepIndex("encryptor") # 0
    /\ udp.packetizers => StepIndex("packetizers") # 0 /\ udp.encryptor # "null"

CommonSteps ==
    {"READY", "discoverIP", "discovered", "SELECT_PROTOCOL",
     "SELECT_PROTOCOL_ACK", "encryptor"}

\* C6 as stated: joinVoice and createStream both go READY, discovery,
\* SELECT_PROTOCOL, ack, encryptor, packetizers in this order, and resolve
\* only after all of these steps
C6_BothCallsCreatePacketizers ==
    /\ HandshakeOrder
    /\ cl.pc = "resolved" =>
          /\ \A step \in CommonSteps \cup {"packetizers"} : Before(step, "resolved")
          /\ udp.packetizers

\* C6: the steps of a call occur in the order READY, discovery,
\* SELECT_PROTOCOL, ack, encryptor and, for createStream, packetizers; the
\* call resolves only after all its steps with the encryptor in place;
\* joinVoice creates no packetizers
C6_HandshakeOrderPerCall ==
    /\ HandshakeOrder
    /\ cl.pc = "resolved" =>
          /\ \A step \in CommonSteps : Before(step, "resolved")
          /\ udp.encryptor # "null"
          /\ cl.kind = "stream" => Before("packetizers", "resolved") /\ udp.packetizers
    /\ cl.kind = "voice" => ~udp.packetizers /\ StepIndex("packetizers") = 0
    /\ play.pc \in {"piping", "failed"} => cl.pc = "resolved" /\ udp.packetizers

C6_Witness ==
    /\ cl.kind = "stream"
    /\ cl.steps = <<"READY", "discoverIP", "discovered", "SELECT_PROTOCOL",
                    "SELECT_PROTOCOL_ACK", "encryptor", "packetizers",
                    "resolved">>
    /\ play.pc = "piping"

\* C7: once the cancellation signal has fired while playStream pipes, the
\* sinks and the demuxer streams are destroyed, SPEAKING 0 and the
\* deactivated VIDEO are signaled on the stream gateway, and the play promise
\* is resolved, not rejected
C7_CancelResolves ==
    play.cancelled =>
        /\ play.sinks = "destroyed"
        /\ play.demux = "destroyed"
        /\ play.outcome = "resolved"
        /\ cl.gateway =>
              \E i \in 1..(Len(play.signals) - 1) :
                 /\ play.signals[i] = SpeakingPayload(FALSE)
                 /\ play.signals[i + 1] = VideoPayload(FALSE)

SrIndices(p) == {i \in 1..Len(handed[p]) : handed[p][i].kind = "sr"}

\* any two Sender Reports of one SSRC fall into different intervals of media
\* time
C11_OneReportPerBucket ==
    \A p \in Ssrcs : \A i, j \in SrIndices(p) :
        i < j => handed[p][i].media \div SR_INTERVAL
                     # handed[p][j].media \div SR_INTERVAL

\* a Sender Report of an SSRC follows an RTP packet of that SSRC
C11_ReportAfterRtp ==
    \A p \in Ssrcs : \A i \in SrIndices(p) :
        \E j \in 1..(i - 1) : handed[p][j].kind = "rtp"

\* C11: per SSRC at most one Sender Report is emitted per 1000 ms interval
\* of media time, and none before an RTP packet of that SSRC was sent
C11_SenderReportCadence ==
    /\ C11_OneReportPerBucket
    /\ C11_ReportAfterRtp

\* ------------------------------------------------------------------------
\* C12  RTP timestamps
\* ------------------------------------------------------------------------

RtpIndices(p) == {i \in 1..Len(handed[p]) : handed[p][i].kind = "rtp"}

\* the RTP clock's ticks per millisecond the claim names
C12_Rate(p) == IF p = "video" THEN 90 ELSE 48

C13_Type(nalu) ==
    IF codec = "H265" THEN (nalu[1] \div 2) % 64 ELSE nalu[1] % 32

C13_IdrTypes == IF codec = "H265" THEN {19, 20} ELSE {5}

\* VPS, SPS, PPS in the claim's order (H.264 has no VPS)
C13_Kinds == IF codec = "H265" THEN <<32, 33, 34>> ELSE <<7, 8>>

C13_Known(t) ==
    IF codec = "H265"
    THEN (IF t = 32 THEN Extra(codec).vps
          ELSE IF t = 33 THEN Extra(codec).sps ELSE Extra(codec).pps)
    ELSE (IF t = 7 THEN Extra(codec).sps ELSE Extra(codec).pps)

C13_Present(au, t) == \E i \in 1..Len(au) : C13_Type(au[i]) = t

RECURSIVE C13_Missing(_, _)
C13_Missing(au, k) ==
    IF k > Len(C13_Kinds) THEN <<>>
    ELSE (IF C13_Present(au, C13_Kinds[k]) THEN <<>>
          ELSE C13_Known(C13_Kinds[k]))
         \o C13_Missing(au, k + 1)

\* C13: an access unit with an IDR NAL unit (type 5 for H.264, 19 or 20 for
\* H.265) comes out as the parameter sets of the kinds it lacks, in the order
\* VPS, SPS, PPS, followed by all its NAL units in their order; an access
\* unit without IDR NAL unit comes out unchanged
C13_MissingParamSetsFirst ==
    (app.done /\ codec \in {"H264", "H265"}) =>
        IF \E t \in C13_IdrTypes : C13_Present(app.arg, t)
        THEN /\ app.ret = C13_Missing(app.arg, 1) \o app.arg
             /\ \A t \in {C13_Kinds[k] : k \in 1..Len(C13_Kinds)} :
                   C13_Present(app.arg, t) =>
                      Cardinality({i \in 1..Len(app.ret) :
                                      C13_Type(app.ret[i]) = t})
                      = Cardinality({i \in 1..Len(app.arg) :
                                      C13_Type(app.arg[i]) = t})
        ELSE app.ret = app.arg

\* an H.265 IDR access unit that has its SPS but neither VPS nor PPS got
\* these two in front
C13_Witness ==
    /\ app.done
    /\ codec = "H265"
    /\ app.arg = << <<66>>, <<38>> >>
    /\ app.ret = << <<64>>, <<68>>, <<66>>, <<38>> >>

\* ------------------------------------------------------------------------
\* C14  Annex B packetization
\* ------------------------------------------------------------------------

\* the packets built for NAL unit k of the frame
PacketsOfNal(k) == {i \in 1..Len(app.ret) : app.ret[i].nal = k}

RECURSIVE SumPayload(_)
SumPayload(S) ==
    IF S = {} THEN 0
    ELSE LET i == CHOOSE x \in S : TRUE
         IN  app.ret[i].payload + SumPayload(S \ {i})

\* C14: a NAL unit of at most 1200 bytes is one RTP packet carrying it
\* whole; a longer one of len bytes is ceil((len - h) / 1200) fragments
\* (h = 1 for H.264, 2 for H.265), in order, carrying len - h bytes
\* together; the marker is on exactly one packet of a non-empty access unit,
\* the last packet of its last NAL unit
C14_OnePacketOrFragments ==
    (app.done /\ app.arg.ssrc = "video" /\ codec \in {"H264", "H265"}) =>
        LET frame == app.arg.frame
            out == app.ret
            h == IF codec = "H264" THEN 1 ELSE 2
        IN  /\ \A i \in 1..Len(out) : out[i].nal \in 1..Len(frame)
            /\ \A i, j \in 1..Len(out) : i < j => out[i].nal <= out[j].nal
            /\ \A k \in 1..Len(frame) :
                  IF frame[k] <= 1200
                  THEN /\ Cardinality(PacketsOfNal(k)) = 1
                       /\ \A i \in PacketsOfNal(k) :
                             out[i].payload = frame[k] /\ out[i].frag = "whole"
                  ELSE /\ Cardinality(PacketsOfNal(k))
                             = (frame[k] - h + 1199) \div 1200
                       /\ SumPayload(PacketsOfNal(k)) = frame[k] - h
                       /\ \A i \in PacketsOfNal(k) :
                             out[i].payload \in 1..1200 /\ out[i].frag # "whole"
            /\ frame # <<>> =>
                  /\ {i \in 1..Len(out) : out[i].marker} = {Len(out)}
                  /\ out[Len(out)].nal = Len(frame)

\* an H.265 access unit of a small NAL unit, one of three fragments and one
\* of two became six packets
C14_Witness ==
    /\ app.done
    /\ codec = "H265"
    /\ app.arg = [ssrc |-> "video", frame |-> <<1200, 2403, 2402>>]
    /\ Len(app.ret) = 6

\* ------------------------------------------------------------------------
\* C15  FU header start and end bits
\* ------------------------------------------------------------------------

C15_StartBit(shape) == (shape.bits \div 128) % 2 = 1

C15_EndBit(shape) == (shape.bits \div 64) % 2 = 1

\* C15: of the fragments of every NAL unit longer than the MTU, exactly the
\* first has the start bit (0x80) in its FU header and exactly the last has
\* the end bit (0x40), also when the NAL unit yields a single fragment
C15_StartOnFirstEndOnLast ==
    (app.done /\ app.arg.ssrc = "video" /\ codec \in {"H264", "H265"}) =>
        \A k \in 1..Len(app.arg.frame) :
            app.arg.frame[k] > 1200 =>
                \A i \in PacketsOfNal(k) :
                    /\ C15_StartBit(app.ret[i])
                          <=> (\A j \in PacketsOfNal(k) : i <= j)
                    /\ C15_EndBit(app.ret[i])
                          <=> (\A j \in PacketsOfNal(k) : j <= i)

\* the same for the NAL units that yield two fragments or more
C15_HoldsForTwoOrMoreFragments ==
    (app.done /\ app.arg.ssrc = "video" /\ codec \in {"H264", "H265"}) =>
        \A k \in 1..Len(app.arg.frame) :
            Cardinality(PacketsOfNal(k)) >= 2 =>
                \A i \in PacketsOfNal(k) :
                    /\ C15_StartBit(app.ret[i])
                          <=> (\A j \in PacketsOfNal(k) : i <= j)
                    /\ C15_EndBit(app.ret[i])
                          <=> (\A j \in PacketsOfNal(k) : j <= i)

\* ------------------------------------------------------------------------
\* C16  VP8 packetization
\* ------------------------------------------------------------------------

\* the packets handed for the frame sent at media time m, after the step
C16_FramePackets(m) ==
    {i \in 1..Len(handed'["video"]) :
        handed'["video"][i].kind = "rtp" /\ handed'["video"][i].media = m}

\* C16: when the sendFrame call of a VP8 frame of len bytes returns, it has
\* sent ceil(len / 1200) packets, the marker on the last only, the S bit on
\* the first only, all with the picture id of before the call (in the
\* 15-bit field after the M bit), and the picture id is one more mod 2^16
C16_Vp8FramePackets ==
    [][ (task["video"].pc # "idle" /\ task'["video"].pc = "idle") =>
          LET len == SumLen(task["video"].frame)
              before == pk["video"].pictureId
              P == C16_FramePackets(pk["video"].mediaTimestamp)
              out == handed'["video"]
          IN  /\ Cardinality(P) = (len + 1199) \div 1200
              /\ \A i \in P :
                    /\ out[i].marker <=> (\A j \in P : j <= i)
                    /\ (out[i].frag = "first") <=> (\A j \in P : i <= j)
                    /\ out[i].pid = 32768 + (before % 32768)
              /\ pk'["video"].pictureId = (before + 1) % 65536
      ]_vars

\* a frame of three packets was sent with picture id 65535 and the picture
\* id is 0 now
C16_Witness ==
    /\ task["video"].pc = "idle"
    /\ pk["video"].pictureId = 0
    /\ Cardinality({i \in 1..Len(handed["video"]) :
                       handed["video"][i].kind = "rtp"
                       /\ handed["video"][i].pid = 65535}) = 3

\* ------------------------------------------------------------------------
\* C17  Additional data of the AEAD
\* ------------------------------------------------------------------------

\* bytes of the packet in front of the ciphertext: the packet but the
\* ciphertext (plaintext and 16-byte tag) and the 4 nonce bytes
C17_ClearPrefix(shape) == shape.len - (shape.plain + 16) - 4

\* C17 as claimed: the additional data of every RTP packet is the 12-byte RTP
\* header; a video packet has extension header and extension payload in
\* clear in front of the ciphertext, an audio packet the header only
C17_AadIsRtpHeaderOnly ==
    app.done =>
        \A i \in 1..Len(app.ret) :
            /\ app.ret[i].aad = 12
            /\ IF app.arg.ssrc = "video"
               THEN C17_ClearPrefix(app.ret[i]) = 12 + 4 + 4 /\ app.ret[i].ext = 0
               ELSE C17_ClearPrefix(app.ret[i]) = 12 /\ app.ret[i].ext = 0

\* C17 amended: the additional data of a video packet are the 16 bytes of
\* RTP header and extension header, which are what precedes the ciphertext,
\* and the 4-byte extension payload is the head of the plaintext; for an
\* audio packet they are the 12-byte RTP header, and there is no extension
C17_AadIsHeaderWithExtensionHeader ==
    app.done =>
        \A i \in 1..Len(app.ret) :
            IF app.arg.ssrc = "video"
            THEN /\ app.ret[i].aad = 12 + 4
                 /\ C17_ClearPrefix(app.ret[i]) = 12 + 4
                 /\ app.ret[i].ext = 4
            ELSE /\ app.ret[i].aad = 12
                 /\ C17_ClearPrefix(app.ret[i]) = 12
                 /\ app.ret[i].ext = 0

\* a VP8 frame of three packets was packetized
C17_Witness ==
    /\ app.done
    /\ app.arg.ssrc = "video"
    /\ codec = "VP8"
    /\ Len(app.ret) = 3

\* ------------------------------------------------------------------------
\* C18  Pacing of a media sink (times in microseconds)
\* ------------------------------------------------------------------------

C18_Diff == app.arg.pts - app.arg.elapsed

C20_DatagramTaken == udp.promise # "none" /\ ~udp.listener

\* C20: discoverIP settles exactly once: it is never pending beyond 10 s; a
\* datagram that arrives within 10 s (the request not having failed)
\* resolves it and makes the transport ready (until stop); it is rejected
\* with the timeout error only after 10 s, and never resolved and rejected
C20_SettlesOnceWithinTenSeconds ==
    /\ udp.promise = "pending" => udp.elapsed <= 10
    /\ (C20_DatagramTaken /\ udp.error = "none") =>
          /\ udp.promise = "resolved"
          /\ udpReady \/ udp.stops > 0
    /\ udp.error = "timeout" => udp.elapsed >= 10
    /\ udp.promise = "resolved" => udp.error = "none"
    /\ udp.promise = "rejected" => udp.error # "none"

\* ------------------------------------------------------------------------
\* C21  sequence_number follows the seq field
\* ------------------------------------------------------------------------

\* the seq of the most recent inbound message that had one, -1 if none had
C21_LastSeq == IF lastSeq = <<>> THEN -1 ELSE lastSeq[1]

\* C21: after any inbound message with a seq field (0 included) the
\* gateway's sequence number is that seq, and every HEARTBEAT and RESUME
\* written carries seq_ack equal to the seq of the most recent inbound
\* message that had one, -1 if none had
C21_SeqAckIsLastSeq ==
    /\ gw.sequenceNumber = C21_LastSeq
    /\ \A i \in 1..Len(ev.sent) :
          ev.sent[i].op \in {"HEARTBEAT", "RESUME"} =>
             ev.sent[i].d.seq_ack = C21_LastSeq

\* ------------------------------------------------------------------------
\* C22  the mode selectProtocol asks for
\* ------------------------------------------------------------------------

\* selectProtocol has just written SELECT_PROTOCOL
C22_Sent == ev.kind = "selectProtocol" /\ ev.sent # <<>>

\* C22: selectProtocol sends SELECT_PROTOCOL with mode
\* aead_aes256_gcm_rtpsize if and only if READY listed that mode and
\* forceChacha20 is false; in every other case it sends
\* aead_xchacha20_poly1305_rtpsize
C22_GcmIffOfferedAndNotForced ==
    C22_Sent =>
       /\ ev.sent[1].op = "SELECT_PROTOCOL"
       /\ ev.sent[1].d.mode = AES256 <=>
             (AES256 \in gw.webRtcParams[1] /\ ~gw.forceChacha20)
       /\ ev.sent[1].d.mode # AES256 => ev.sent[1].d.mode = XCHACHA20

\* forced to ChaCha although the server offered both: XChaCha20 is asked for
C22_Witness ==
    /\ C22_Sent
    /\ gw.forceChacha20
    /\ gw.webRtcParams[1] = {AES256, XCHACHA20}
    /\ ev.sent[1].d.mode = XCHACHA20

\* ------------------------------------------------------------------------
\* C23  the encryptor built on SELECT_PROTOCOL_ACK
\* ------------------------------------------------------------------------

\* the encryptor class of a mode
C23_SuiteOf(mode) ==
    IF mode = AES256 THEN "AES256Encryptor" ELSE "ChaCha20Encryptor"

\* C23: when protocol_ack is emitted the gateway holds the encryptor whose
\* suite is the mode named in the ack, for every combination of ack mode
\* and forceChacha20
C23_EncryptorMatchesAckMode ==
    app.done => app.ret[1] = C23_SuiteOf(app.arg[1])

\* ------------------------------------------------------------------------
\* C24  a failing packetizer call tears the pipeline down
\* ------------------------------------------------------------------------

\* C24: once a packetizer call has failed inside a sink and the sink has
\* emitted its error, the play promise eventually settles, even when the
\* other stream has not reached its end
C24_SinkErrorSettlesPlay ==
    (play.errored # {}) ~> (play.outcome # "pending")

\* ------------------------------------------------------------------------
\* C30  parameter-set injection is idempotent
\* ------------------------------------------------------------------------

\* the frame has an IDR slice and every parameter set of its codec
C30_CompleteIdr(c, frame) ==
    LET nalus == splitNalu(frame)
    IN  /\ IsIDR(c, nalus)
        /\ IF c = "H265"
           THEN /\ HasType(c, nalus, H265_VPS)
                /\ HasType(c, nalus, H265_SPS)
                /\ HasType(c, nalus, H265_PPS)
           ELSE HasType(c, nalus, H264_SPS) /\ HasType(c, nalus, H264_PPS)

\* C30: injecting twice gives the bytes injecting once gives, and an IDR
\* frame that already carries SPS and PPS (and VPS for H.265) comes out
\* byte for byte as it went in
C30_InjectionIdempotent ==
    /\ Len(app.ret) = 2 => app.ret[2] = app.ret[1]
    /\ (Len(app.ret) >= 1 /\ C30_CompleteIdr(codec, app.arg)) =>
          app.ret[1] = app.arg

\* an IDR frame without parameter sets was injected twice: the first
\* injection added them, the second added nothing
C30_Witness ==
    /\ Len(app.ret) = 2
    /\ IsIDR(codec, splitNalu(app.arg))
    /\ Len(app.ret[1]) > Len(app.arg)
    /\ C30_CompleteIdr(codec, app.ret[1])

\* ------------------------------------------------------------------------
\* C25  unsupported codecs
\* ------------------------------------------------------------------------

\* C25: demux on an input whose first video track or first audio track has
\* an unsupported codec fails with the unsupported-codec error, after it
\* has released the reader device and the container resources; it returns
\* no packet stream
C25_UnsupportedCodecFailsReleased ==
    dmx.pc = "failed" =>
       /\ dmx.error = <<"UnsupportedCodec">>
       /\ ~dmx.device
       /\ dmx.released = 1
       /\ ~dmx.video /\ ~dmx.audio

\* ------------------------------------------------------------------------
\* C26  end of the container, fatal errors and EAGAIN
\* ------------------------------------------------------------------------

\* C26: after a read with a negative status other than EAGAIN both output
\* streams are ended, the container resources are released exactly once
\* and nothing is read any more; after a read with status EAGAIN no stream
\* is ended, no error is surfaced, nothing is released and the loop goes
\* on (at once, or on the drain a full pipe owes)
C26_FatalEndsOnceEagainContinues ==
    /\ dmx.released <= 1
    /\ dmx.ended # {} => dmx.pc = "running" /\ Fatal(dmx.last)
    /\ (dmx.pc = "running" /\ Fatal(dmx.last)) =>
          /\ dmx.ended = Ssrcs
          /\ dmx.released = 1
          /\ ~dmx.device
          /\ ~dmx.reading
          /\ dmx.readsAfterEnd = 0
    /\ (dmx.pc = "running" /\ dmx.last = "EAGAIN") =>
          /\ dmx.ended = {}
          /\ dmx.error = <<>>
          /\ dmx.released = 0
          /\ dmx.reading \/ \E which \in Ssrcs : dmx.needDrain[which]

\* a fatal parse error after packets were read: the outputs are ended with
\* packets still in them, and the owed drain no longer starts a read
C26_Witness ==
    /\ dmx.pc = "running"
    /\ dmx.last = "EIO"
    /\ dmx.reads > 1
    /\ dmx.ended = Ssrcs
    /\ dmx.released = 1
    /\ dmx.blocked = 1
    /\ dmx.taken["video"] = dmx.written["video"]
    /\ dmx.written["video"] >= HighWaterMark
    /\ ~dmx.reading

\* ------------------------------------------------------------------------
\* C27  back-pressure of the demuxer
\* ------------------------------------------------------------------------

\* a write has reported would-block and its drain is still owed
C27_Blocked == dmx.ended = {} /\ \E which \in Ssrcs : dmx.needDrain[which]

C27_AllDelivered ==
    /\ dmx.ended = Ssrcs
    /\ \A which \in Ssrcs :
          dmx.buf[which] = 0 /\ dmx.taken[which] = dmx.written[which]

C28_NoEncryptorFailsAndSendsNothing ==
    (app.done /\ udp.encryptor = "null") =>
       /\ app.ret = <<"Encryptor not set">>
       /\ \A p \in Ssrcs : handed[p] = <<>>

\* ------------------------------------------------------------------------
\* C29  the nonce counter
\* ------------------------------------------------------------------------

\* the 32-bit value four big-endian bytes stand for
C29_FromBE(bytes) == U32(bytes[1] * 256 + bytes[2], bytes[3] * 256 + bytes[4])

\* the encrypt calls a step makes on behalf of packetizer p
C29_NewCalls(p) == Len(encCalls'[p]) - Len(encCalls[p])

\* the calls of a step take the counter values from the one the encryptor
\* holds on, in call order, and leave the counter behind the last of
\* them; a step that makes no call (an encryption completes, a packet is
\* handed over) leaves the counter alone
C29_CallsTakeCounter ==
    /\ \A p \in Ssrcs : \A i \in 1..C29_NewCalls(p) :
          encCalls'[p][Len(encCalls[p]) + i] = U32Add(encNonce, i - 1)
    /\ encNonce' = U32Add(encNonce, C29_NewCalls("audio") + C29_NewCalls("video"))

\* C29: N consecutive encrypt calls on an encryptor whose counter is k use
\* k, k+1, ..., k+N-1 mod 2^32 in call order, the counter being consumed
\* when the call is made; the four bytes that end each wire packet are the
\* counter of its call, big-endian; a fresh encryptor uses 0 for its first
\* call and holds 1 afterwards
C29_NonceCounterInCallOrder ==
    /\ [][C29_CallsTakeCounter]_vars
    /\ [](\A p \in Ssrcs : \A i \in 1..Len(handed[p]) :
            /\ Len(handed[p][i].tail) = 4
            /\ C29_FromBE(handed[p][i].tail) = encCalls[p][i])
    /\ []((callsBefore = U32Zero /\ CallsMade = 1) =>
            (UsedNonces = {U32Zero} /\ encNonce = U32(0, 1)))

\* on a fresh encryptor the third call's packet is on the wire, ending in
\* 00 00 00 02, and calls of both packetizers have drawn from the counter
C29_Witness ==
    /\ callsBefore = U32Zero
    /\ \E p \in Ssrcs : \E i \in 1..Len(handed[p]) :
          handed[p][i].tail = <<0, 0, 0, 2>>
    /\ encCalls["audio"] # <<>> /\ encCalls["video"] # <<>>

\* ------------------------------------------------------------------------
\* C31  splitNalu and mergeNalu undo each other
\* ------------------------------------------------------------------------

\* C31: for every well-formed length-prefixed frame,
\* mergeNalu(splitNalu(frame)) is the frame, and for every list of NAL
\* payloads, empty payloads and the empty list included,
\* splitNalu(mergeNalu(list)) is the list
C31_SplitMergeRoundTrip ==
    Len(app.ret) = 2 => app.ret[2] = app.arg.val

\* a list with an empty payload between two others went through mergeNalu
\* and splitNalu
C31_Witness ==
    /\ app.arg.kind = "list"
    /\ Len(app.arg.val) = 3
    /\ app.arg.val[1] # <<>> /\ app.arg.val[2] = <<>> /\ app.arg.val[3] # <<>>
    /\ Len(app.ret) = 2

\* ------------------------------------------------------------------------
\* C32  the Sender Report of a boundary and the frame that crossed it
\* ------------------------------------------------------------------------

\* the Sender Report interval the media time of a handed packet lies in
C32_Bucket(p, i) == handed[p][i].media \div SR_INTERVAL

\* C32: per SSRC the Sender Report of an interval boundary is sent in the
\* sendFrame turn of the frame whose frame time moved the media time over
\* the boundary, after that frame's RTP packets and before any RTP packet
\* of the next frame: no RTP packet is followed directly by an RTP packet
\* whose media time lies in a later interval
C32_ReportInCrossingTurn ==
    \A p \in Ssrcs : \A i \in 1..(Len(handed[p]) - 1) :
        (handed[p][i].kind = "rtp" /\ handed[p][i + 1].kind = "rtp")
            => C32_Bucket(p, i) = C32_Bucket(p, i + 1)

\* ------------------------------------------------------------------------
\* C33  one heartbeat timer, at the interval of the last HELLO
\* ------------------------------------------------------------------------

\* the step handles a HELLO
C33_Hello == ev'.kind = "message" /\ ev'.op = "HELLO"

\* a HELLO leaves exactly the timer of the interval it carries; the timer
\* that fires is that one; only a HELLO and stop change the timers
C33_HelloReplacesTimer ==
    /\ C33_Hello => gw'.timers = << ev'.interval >>
    /\ ev'.kind = "heartbeat" => gw.timers = << ev'.interval >>
    /\ (~C33_Hello /\ ev'.kind # "stop") => gw'.timers = gw.timers

\* C33: each HELLO starts the heartbeat at the interval it carries in place
\* of any earlier timer: across HELLO messages and reconnects the gateway
\* has at most one running heartbeat timer, and heartbeats fire at the
\* interval of the most recent HELLO
C33_OneTimerAtLastHelloInterval ==
    /\ [](Len(gw.timers) <= 1)
    /\ [][C33_HelloReplacesTimer]_vars

\* the gateway has reconnected, the HELLO of the second socket carried
\* another interval than the first, and the heartbeat fired at it
C33_Witness ==
    /\ Len(gw.sock) >= 2
    /\ gw.sock[1] = "closed"
    /\ ev.kind = "heartbeat"
    /\ ev.interval = 41250
    /\ ev.sent # <<>>

\* ------------------------------------------------------------------------
\* C34  cancellation at any point of playStream
\* ------------------------------------------------------------------------

\* C34: once the cancellation signal has fired, at whatever point after
\* the call of playStream, also while demux or createStream was pending
\* and the abort listener not yet registered, playStream does not go on
\* playing until its input ends: when it pipes (or would pipe) it has
\* finished
C34_CancelStopsPlay ==
    (play.aborted /\ play.pc = "piping") => play.finished

\* ------------------------------------------------------------------------
\* C35  no frame and no packet after a cancelled play has resolved
\* ------------------------------------------------------------------------

\* playStream has resolved because of cancellation
C35_Cancelled == play.cancelled /\ play.outcome = "resolved"

\* C35: after playStream has resolved because of cancellation neither sink
\* hands another frame to its packetizer, and a write that was in its
\* pacing sleep or awaiting the packetizer when the sink was destroyed
\* sends no packet afterwards
C35_NothingAfterCancel ==
    [][C35_Cancelled => (fed' = fed /\ handed' = handed)]_vars

\* ------------------------------------------------------------------------
\* C36  every packet read is written once, in read order
\* ------------------------------------------------------------------------

\* C36: every packet the container reader returns for the selected video
\* or audio track is written to that track's output exactly once and in
\* read order, whatever the back-pressure of either output and however
\* many packets one read returns: the packets written to an output are
\* the first, second, ... up to the last packet returned for its track
C36_EveryPacketWrittenInOrder ==
    \A which \in Ssrcs :
        dmx.put[which] = [i \in 1..dmx.returned[which] |-> i]

\* ------------------------------------------------------------------------
\* C37  cleanup and settlement of playStream
\* ------------------------------------------------------------------------

\* how often a signal was written by the play
C37_Count(signal) ==
    Cardinality({i \in 1..Len(play.signals) : play.signals[i] = signal})

\* cleanup has run once and the promise is settled, or neither has happened
C37_OnceOrNotYet ==
    IF play.finished
    THEN /\ C37_Count(SpeakingPayload(FALSE)) = 1
         /\ C37_Count(VideoPayload(FALSE)) = 1
         /\ play.outcome = "resolved"
    ELSE /\ C37_Count(SpeakingPayload(FALSE)) = 0
         /\ C37_Count(VideoPayload(FALSE)) = 0
         /\ play.outcome = "pending"

\* cleanup and settlement come only when every present stream is done
\* (its sink has finished or failed), or by cancellation
C37_NotBeforeDone ==
    play.finished => (play.cancelled \/ (play.videoDone /\ play.audioDone))

\* C37: across the interleavings of sink finish, sink error, cancellation
\* and the 2 s safety poll the cleanup (SPEAKING 0, VIDEO inactive) is
\* performed exactly once and the promise settled exactly once, and
\* neither before both present streams are done, unless cancelled
C37_CleanupOnceWhenDone ==
    /\ C37_OnceOrNotYet
    /\ C37_NotBeforeDone

\* ------------------------------------------------------------------------
\* C38  opcodes go to an open WebSocket only
\* ------------------------------------------------------------------------

\* C38: whatever opcode the gateway writes (IDENTIFY, RESUME, HEARTBEAT,
\* SELECT_PROTOCOL, SPEAKING, VIDEO), the WebSocket it is written to is open
\* at that moment: none goes to a socket that is still connecting or
\* already closed, the HEARTBEAT of a timer started on an earlier
\* connection included
C38_OpcodesOnlyToOpenSocket ==
    \A i \in 1..Len(ev.sent) : ev.sent[i].state = "open"

\* ------------------------------------------------------------------------
\* C39  no heartbeat after stop
\* ------------------------------------------------------------------------

\* the gateway names no socket and does not count as started, as stop
\* leaves it, and the step is no call of setSession or setTokens
C39_StaysStopped == gw.ws = 0 /\ ~gw.started /\ ev'.kind # "setter"

\* C39: from stop until setSession or setTokens is called again the
\* gateway has no running heartbeat timer and sends no HEARTBEAT, whatever
\* messages (a late HELLO among them) and close events the socket being
\* closed still delivers
C39_NoHeartbeatAfterStop ==
    [][/\ ev'.kind = "stop" => gw'.timers = <<>>
       /\ C39_StaysStopped =>
             /\ gw'.timers = <<>>
             /\ ev'.kind = "heartbeat" => ev'.sent = <<>>]_vars

\* ------------------------------------------------------------------------
\* C40  a transport whose discovery failed stays not-ready
\* ------------------------------------------------------------------------

\* C40: once discoverIP has rejected (10 s timeout or send error) the
\* transport is not ready for the rest of its life: a datagram that
\* arrives afterwards does not make sendPacket transmit
C40_RejectedStaysNotReady ==
    /\ [](udp.promise = "rejected" => ~udpReady)
    /\ [][(udp.promise = "rejected" /\ Len(udp'.calls) > Len(udp.calls))
             => udp'.calls[Len(udp'.calls)].out # "written"]_vars

====
